---- MODULE Spec2Model ----
(***************************************************************************)
(* A model of the CHIP-8 emulator core of PICO-RS-8: the interpreter       *)
(* CPU::decode (src/src/cpu.rs), the timer thread spawned by CPU::new,     *)
(* Memory (src/src/memory.rs), the pixel grid of Display                   *)
(* (src/src/display.rs) and the driver operations of Emulator              *)
(* (src/src/emulator.rs): set_font, load_rom, set_key and cycle.           *)
(*                                                                         *)
(* Rust panics (an index out of bounds, an arithmetic overflow in a build  *)
(* with overflow checks) end the interpreter: the variable `panicked`      *)
(* records the kind of panic and no further cycle runs.  Whether u16       *)
(* arithmetic panics or wraps depends on the build profile, which the      *)
(* variable `overflow_checks` fixes at start-up (both profiles are         *)
(* explored).                                                              *)
(***************************************************************************)
EXTENDS Integers, Sequences, FiniteSets, TLC

(***************************************************************************)
(* Program constants.                                                      *)
(***************************************************************************)
RAM_SIZE == 4096
SCREEN_WIDTH == 64
SCREEN_HEIGHT == 32
FONT_ADDRESS == 80
ROM_ADDRESS == 512
STACK_LEN == 16
KEY_COUNT == 16
SHIFT_SET_MODE == TRUE
JUMP_VX_MODE == FALSE
\* mpsc::channel::<PixelBuffer>(1)
CHANNEL_CAPACITY == 1

U16 == 65536
U8 == 256

(***************************************************************************)
(* Bounds of the model.                                                    *)
(***************************************************************************)
\* of the 15 keys of the driver, keys 1..MaxKey are the ones pressed and
\* released while the program of a family runs
MaxKey == 1
\* keys 1..MaxWaitKey are the ones pressed and released while a program waits for a key
MaxWaitKey == 2
\* depth of the ladder of nested subroutines in the call/return programs
MaxDepth == 17

(***************************************************************************)
(* Diagnostics printed by decode and the kinds of panic.                   *)
(***************************************************************************)
MSG_NONE == ""
MSG_UNDERFLOW == "Stack underflow: Cannot return from subroutine"
MSG_OVERFLOW == "Stack overflow: Cannot call subroutine"
MSG_UNKNOWN == "Unknown opcode"
MSG_REGISTER == "Invalid register index"

NO_PANIC == "none"
PANIC_MEMORY == "index out of bounds: memory.data"
PANIC_KEYS == "index out of bounds: keys"
PANIC_ARITH == "arithmetic overflow"
PANIC_SPRITE == "index out of bounds: sprite"
PANIC_SEND == "called Result::unwrap() on an Err value: SendError"

(***************************************************************************)
(* 8-bit and 16-bit arithmetic.                                            *)
(***************************************************************************)
RECURSIVE Bitwise(_, _, _, _)
Bitwise(op, a, b, k) ==
    IF k = 8 THEN 0
    ELSE LET x == a % 2
             y == b % 2
             r == CASE op = "or" -> IF x + y > 0 THEN 1 ELSE 0
                    [] op = "and" -> x * y
                    [] op = "xor" -> (x + y) % 2
         IN r + 2 * Bitwise(op, a \div 2, b \div 2, k + 1)

\* u8::overflowing_add: (wrapped result, carry)
overflowing_add(a, b) == [result |-> (a + b) % U8, carry |-> a + b >= U8]

\* u8::overflowing_sub: (wrapped result, borrow)
overflowing_sub(a, b) == [result |-> (a - b + U8) % U8, borrow |-> a < b]

\* u8::wrapping_add
wrapping_add(a, b) == (a + b) % U8

\* u16 `a + b`: panics in a build with overflow checks, wraps otherwise
AddU16(a, b, oc) ==
    IF a + b >= U16 THEN [ok |-> ~oc, val |-> (a + b) % U16]
    ELSE [ok |-> TRUE, val |-> a + b]

\* u16 `a - b`: panics in a build with overflow checks, wraps otherwise
SubU16(a, b, oc) ==
    IF a < b THEN [ok |-> ~oc, val |-> (a - b + U16) % U16]
    ELSE [ok |-> TRUE, val |-> a - b]

BoolToU8(b) == IF b THEN 1 ELSE 0

(***************************************************************************)
(* Instruction fields.  n[1..4] are nibbles[0..3] of the source.           *)
(***************************************************************************)
Nibbles(opcode) ==
    << opcode \div 4096, (opcode \div 256) % 16, (opcode \div 16) % 16, opcode % 16 >>

\* the 12-bit address assembled from the low three nibbles
Addr(n) == n[2] * 256 + n[3] * 16 + n[4]

\* the 8-bit immediate assembled from the low two nibbles
Imm(n) == n[3] * 16 + n[4]

\* the two-byte fetch, high byte first
Fetch(memory, pc) == memory[pc] * 256 + memory[pc + 1]

\* the fetch indexes memory.data[pc] and memory.data[pc + 1] unchecked
FetchInRange(pc) == pc + 1 < RAM_SIZE

Panic(s, why) == [s EXCEPT !.panicked = why]

(***************************************************************************)
(* Display.                                                                *)
(***************************************************************************)
BlankPixels == [y \in 0 .. SCREEN_HEIGHT - 1 |-> [x \in 0 .. SCREEN_WIDTH - 1 |-> FALSE]]

\* a clear that stops after the first row
DisplayClear_first_row(pixels) ==
    [y \in DOMAIN pixels |-> [x \in DOMAIN pixels[y] |-> IF y = 0 THEN FALSE ELSE pixels[y][x]]]

\* Display::clear
DisplayClear(pixels) == [y \in DOMAIN pixels |-> [x \in DOMAIN pixels[y] |-> FALSE]]

\* A usize argument of Display::draw_sprite.  The positions that matter are
\* the small ones and the ones next to usize::MAX, whatever the width of
\* usize: [top |-> FALSE, k |-> k] is the value k, [top |-> TRUE, k |-> k]
\* is usize::MAX - k.
Usize(k) == [top |-> FALSE, k |-> k]
UsizeBelowMax(k) == [top |-> TRUE, k |-> k]

\* `x + c` on usize: past usize::MAX the addition panics in a build with
\* overflow checks and wraps in one without
AddUsize(x, c, oc) ==
    IF ~x.top THEN [ok |-> TRUE, val |-> Usize(x.k + c)]
    ELSE IF c <= x.k THEN [ok |-> TRUE, val |-> UsizeBelowMax(x.k - c)]
    ELSE IF oc THEN [ok |-> FALSE, val |-> x]
    ELSE [ok |-> TRUE, val |-> Usize(c - x.k - 1)]

\* `x % m` on usize, for m = 64 and m = 32, which divide usize::MAX + 1
ModUsize(x, m) == IF ~x.top THEN x.k % m ELSE m - 1 - (x.k % m)

\* Display::draw_sprite, the loop over the 8 columns of one sprite row
RECURSIVE SpriteCols(_, _, _, _, _, _, _)
SpriteCols(d, sprite_byte, x, y, row, col, oc) ==
    IF d.panic # NO_PANIC \/ col >= 8 \/ col > SCREEN_WIDTH THEN d
    ELSE LET pixel == (sprite_byte \div (2 ^ (7 - col))) % 2 = 1
             sum_x == AddUsize(x, col, oc)
             sum_y == AddUsize(y, row, oc)
         IN IF ~sum_x.ok \/ ~sum_y.ok THEN [d EXCEPT !.panic = PANIC_ARITH]
            ELSE LET display_x == ModUsize(sum_x.val, SCREEN_WIDTH)
                     display_y == ModUsize(sum_y.val, SCREEN_HEIGHT)
                     drawn == [d.pixels EXCEPT ![display_y][display_x] = (@ # pixel)]
                 IN IF d.pixels[display_y][display_x] /\ pixel
                    THEN SpriteCols([d EXCEPT !.pixels = drawn, !.pixel_erased = TRUE],
                                    sprite_byte, x, y, row, col + 1, oc)
                    ELSE SpriteCols([d EXCEPT !.pixels = drawn],
                                    sprite_byte, x, y, row, col + 1, oc)

\* Display::draw_sprite, the loop over the rows: `sprite[row]` panics past the
\* end of the slice
RECURSIVE SpriteRows(_, _, _, _, _, _, _)
SpriteRows(d, x, y, n, sprite, row, oc) ==
    IF d.panic # NO_PANIC \/ row >= n \/ row > SCREEN_HEIGHT THEN d
    ELSE IF row >= Len(sprite) THEN [d EXCEPT !.panic = PANIC_SPRITE]
    ELSE SpriteRows(SpriteCols(d, sprite[row + 1], x, y, row, 0, oc),
                    x, y, n, sprite, row + 1, oc)

\* Display::draw_sprite(x, y, n, sprite) up to its send: the grid the loops
\* leave (what they had drawn when they panicked, if they did), the bool the
\* function is about to return, and the panic
DrawSprite(pixels, x, y, n, sprite, oc) ==
    SpriteRows([pixels |-> pixels, pixel_erased |-> FALSE, panic |-> NO_PANIC],
               x, y, n, sprite, 0, oc)

(***************************************************************************)
(* Memory.                                                                 *)
(***************************************************************************)
\* Memory::new
MemoryNew == [a \in 0 .. RAM_SIZE - 1 |-> 0]

\* Emulator::get_font
get_font ==
    << 240, 144, 144, 144, 240,
       32, 96, 32, 32, 112,
       240, 16, 240, 128, 240,
       240, 16, 240, 16, 240,
       144, 144, 240, 16, 16,
       240, 128, 240, 16, 240,
       240, 128, 240, 144, 240,
       240, 16, 32, 64, 64,
       240, 144, 240, 144, 240,
       240, 144, 240, 16, 240,
       240, 144, 240, 144, 144,
       224, 144, 224, 144, 224,
       240, 128, 128, 128, 240,
       224, 144, 144, 144, 224,
       240, 128, 240, 128, 240,
       240, 128, 240, 128, 128 >>

\* Emulator::set_font: font[i] goes to FONT_ADDRESS + i
SetFont(memory, font) ==
    [a \in DOMAIN memory |->
        IF a >= FONT_ADDRESS /\ a < FONT_ADDRESS + Len(font)
        THEN font[a - FONT_ADDRESS + 1] ELSE memory[a]]

\* the size test rejecting a ROM that ends exactly at the end of memory
RomTooLarge_inclusive(rom) == Len(rom) + ROM_ADDRESS >= RAM_SIZE

\* Emulator::load_rom: the size test
RomTooLarge(rom) == Len(rom) + ROM_ADDRESS > RAM_SIZE

\* the copy loop storing byte i at ROM_ADDRESS + i + 1
CopyRom_shifted(memory, rom) ==
    [a \in DOMAIN memory |->
        IF a > ROM_ADDRESS /\ a <= ROM_ADDRESS + Len(rom)
        THEN rom[a - ROM_ADDRESS] ELSE memory[a]]

\* Emulator::load_rom: the copy loop
CopyRom(memory, rom) ==
    [a \in DOMAIN memory |->
        IF a >= ROM_ADDRESS /\ a < ROM_ADDRESS + Len(rom)
        THEN rom[a - ROM_ADDRESS + 1] ELSE memory[a]]

(***************************************************************************)
(* CPU::decode, one operator per match arm.  `s` is the machine the arm    *)
(* works on: [pc, sp, stack, v, i, memory, pixels, delay_timer,            *)
(* sound_timer, out, panicked]; `n` the nibbles of the opcode; `oc` the    *)
(* build's overflow checks.  An arm returns the machine before the         *)
(* `self.pc += 2` that ends decode.  A panicking arm returns the machine   *)
(* it was given with `panicked` set: the unwinding leaves nothing of the   *)
(* interrupted cycle to observe.                                           *)
(***************************************************************************)
\* `self.pc += 2`
AdvancePc(s, oc) ==
    LET r == AddU16(s.pc, 2, oc)
    IN IF r.ok THEN [s EXCEPT !.pc = r.val] ELSE Panic(s, PANIC_ARITH)

\* 00E0: clear the display
Op_00E0(s) == [s EXCEPT !.pixels = DisplayClear(s.pixels)]

\* an underflow that still loads PC from the bottom stack slot
ReturnUnderflow_pops(s) == [s EXCEPT !.pc = s.stack[0], !.out = MSG_UNDERFLOW]

\* 00EE: the underflow branch
ReturnUnderflow(s) == [s EXCEPT !.out = MSG_UNDERFLOW]

\* 00EE taken for 00E0: the return arm clearing the display
Op_00EE_clears(s) == [s EXCEPT !.pixels = DisplayClear(s.pixels)]

\* 00EE: return from a subroutine
Op_00EE(s) ==
    IF s.sp > 0
    THEN [s EXCEPT !.pc = s.stack[s.sp - 1], !.sp = s.sp - 1]
    ELSE ReturnUnderflow(s)

\* 1NNN: jump; `self.pc = address; self.pc -= 2`
Op_1NNN(s, n, oc) ==
    LET r == SubU16(Addr(n), 2, oc)
    IN IF r.ok THEN [s EXCEPT !.pc = r.val] ELSE Panic(s, PANIC_ARITH)

\* the guard letting the stack pointer run past the 16 slots
CallHasRoom_deep(sp) == sp < STACK_LEN + 1

\* 2NNN: the guard of the push
CallHasRoom(sp) == sp < 15

\* an overflow that still writes the return address over the top entry
CallOverflow_clobbers(s) ==
    [s EXCEPT !.stack[STACK_LEN - 1] = s.pc, !.out = MSG_OVERFLOW]

\* 2NNN: the overflow branch
CallOverflow(s) == [s EXCEPT !.out = MSG_OVERFLOW]

\* 2NNN: call a subroutine
Op_2NNN(s, n, oc) ==
    IF CallHasRoom(s.sp)
    THEN LET r == SubU16(Addr(n), 2, oc)
         IN IF r.ok
            THEN [s EXCEPT !.stack[s.sp] = s.pc, !.sp = s.sp + 1, !.pc = r.val]
            ELSE Panic(s, PANIC_ARITH)
    ELSE CallOverflow(s)

\* 3XNN: skip if VX == NN
Op_3XNN(s, n, oc) ==
    IF n[2] < 16 /\ s.v[n[2]] = Imm(n) THEN AdvancePc(s, oc) ELSE s

\* 4XNN skipping on equality, as 3XNN does
Op_4XNN_equal(s, n, oc) ==
    IF n[2] < 16 /\ s.v[n[2]] = Imm(n) THEN AdvancePc(s, oc) ELSE s

\* 4XNN: skip if VX != NN
Op_4XNN(s, n, oc) ==
    IF n[2] < 16 /\ s.v[n[2]] # Imm(n) THEN AdvancePc(s, oc) ELSE s

\* 5XY0: skip if VX == VY
Op_5XY0(s, n, oc) ==
    IF n[2] < 16 /\ n[3] < 16 /\ s.v[n[2]] = s.v[n[3]] THEN AdvancePc(s, oc) ELSE s

\* 6XNN: VX = NN
Op_6XNN(s, n) ==
    IF n[2] < 16 THEN [s EXCEPT !.v[n[2]] = Imm(n) % U8]
    ELSE [s EXCEPT !.out = MSG_REGISTER]

\* 7XNN leaving the carry of the addition in VF, as 8XY4 does
Op_7XNN_carry(s, n) ==
    IF n[2] < 16
    THEN LET r == overflowing_add(s.v[n[2]], Imm(n) % U8)
             v1 == [s.v EXCEPT ![n[2]] = r.result]
         IN [s EXCEPT !.v = [v1 EXCEPT ![15] = BoolToU8(r.carry)]]
    ELSE [s EXCEPT !.out = MSG_REGISTER]

\* 7XNN: VX = VX + NN, wrapping
Op_7XNN(s, n) ==
    IF n[2] < 16 THEN [s EXCEPT !.v[n[2]] = wrapping_add(s.v[n[2]], Imm(n) % U8)]
    ELSE [s EXCEPT !.out = MSG_REGISTER]

\* 8XY0: VX = VY
Op_8XY0(s, n) ==
    IF n[2] < 16 /\ n[3] < 16 THEN [s EXCEPT !.v[n[2]] = s.v[n[3]]]
    ELSE [s EXCEPT !.out = MSG_REGISTER]

\* 8XY1, 8XY2, 8XY3: `self.v[0xF] = 0`, then VX = VX op VY
Op_8XY_logic(s, n, op) ==
    LET v1 == [s.v EXCEPT ![15] = 0]
    IN IF n[2] < 16 /\ n[3] < 16
       THEN [s EXCEPT !.v = [v1 EXCEPT ![n[2]] = Bitwise(op, v1[n[2]], v1[n[3]], 0)]]
       ELSE [s EXCEPT !.v = v1, !.out = MSG_REGISTER]

\* 8XY4 with the flag written before the sum
Op_8XY4_flag_first(s, n) ==
    IF n[2] < 16 /\ n[3] < 16
    THEN LET r == overflowing_add(s.v[n[2]], s.v[n[3]])
             v1 == [s.v EXCEPT ![15] = BoolToU8(r.carry)]
         IN [s EXCEPT !.v = [v1 EXCEPT ![n[2]] = r.result]]
    ELSE [s EXCEPT !.out = MSG_REGISTER]

\* 8XY4: VX = VX + VY, then VF = carry
Op_8XY4(s, n) ==
    IF n[2] < 16 /\ n[3] < 16
    THEN LET r == overflowing_add(s.v[n[2]], s.v[n[3]])
             v1 == [s.v EXCEPT ![n[2]] = r.result]
         IN [s EXCEPT !.v = [v1 EXCEPT ![15] = BoolToU8(r.carry)]]
    ELSE [s EXCEPT !.out = MSG_REGISTER]

\* 8XY5 with VF = borrow
Op_8XY5_borrow_flag(s, n) ==
    IF n[2] < 16 /\ n[3] < 16
    THEN LET r == overflowing_sub(s.v[n[2]], s.v[n[3]])
             v1 == [s.v EXCEPT ![n[2]] = r.result]
         IN [s EXCEPT !.v = [v1 EXCEPT ![15] = BoolToU8(r.borrow)]]
    ELSE [s EXCEPT !.out = MSG_REGISTER]

\* 8XY5: VX = VX - VY, then VF = NOT borrow
Op_8XY5(s, n) ==
    IF n[2] < 16 /\ n[3] < 16
    THEN LET r == overflowing_sub(s.v[n[2]], s.v[n[3]])
             v1 == [s.v EXCEPT ![n[2]] = r.result]
         IN [s EXCEPT !.v = [v1 EXCEPT ![15] = BoolToU8(~r.borrow)]]
    ELSE [s EXCEPT !.out = MSG_REGISTER]

\* 8XY6 shifting VX in place, VY ignored
Op_8XY6_in_place(s, n) ==
    IF n[2] < 16
    THEN LET bit == s.v[n[2]] % 2
             v2 == [s.v EXCEPT ![n[2]] = s.v[n[2]] \div 2]
         IN [s EXCEPT !.v = [v2 EXCEPT ![15] = bit]]
    ELSE [s EXCEPT !.out = MSG_REGISTER]

\* 8XY6: (VX = VY,) VF = lowest bit, VX >>= 1
Op_8XY6(s, n) ==
    IF n[2] < 16
    THEN LET v1 == IF SHIFT_SET_MODE THEN [s.v EXCEPT ![n[2]] = s.v[n[3]]] ELSE s.v
             bit == v1[n[2]] % 2
             v2 == [v1 EXCEPT ![n[2]] = v1[n[2]] \div 2]
         IN [s EXCEPT !.v = [v2 EXCEPT ![15] = bit]]
    ELSE [s EXCEPT !.out = MSG_REGISTER]

\* 8XY7: VX = VY - VX, then VF = NOT borrow
Op_8XY7(s, n) ==
    IF n[2] < 16 /\ n[3] < 16
    THEN LET r == overflowing_sub(s.v[n[3]], s.v[n[2]])
             v1 == [s.v EXCEPT ![n[2]] = r.result]
         IN [s EXCEPT !.v = [v1 EXCEPT ![15] = BoolToU8(~r.borrow)]]
    ELSE [s EXCEPT !.out = MSG_REGISTER]

\* 8XYE: (VX = VY,) VF = highest bit, VX <<= 1
Op_8XYE(s, n) ==
    IF n[2] < 16
    THEN LET v1 == IF SHIFT_SET_MODE THEN [s.v EXCEPT ![n[2]] = s.v[n[3]]] ELSE s.v
             bit == (v1[n[2]] \div 128) % 2
             v2 == [v1 EXCEPT ![n[2]] = (v1[n[2]] * 2) % U8]
         IN [s EXCEPT !.v = [v2 EXCEPT ![15] = bit]]
    ELSE [s EXCEPT !.out = MSG_REGISTER]

\* 9XY0: skip if VX != VY
Op_9XY0(s, n, oc) ==
    IF n[2] < 16 /\ n[3] < 16 /\ s.v[n[2]] # s.v[n[3]] THEN AdvancePc(s, oc) ELSE s

\* ANNN: I = NNN
Op_ANNN(s, n) == [s EXCEPT !.i = Addr(n)]

\* BNNN: `self.pc = nnn + v - 2`, v = V0 (or VX in JUMP_VX_MODE)
Op_BNNN(s, n, oc) ==
    LET off == IF JUMP_VX_MODE THEN s.v[n[2]] ELSE s.v[0]
        a == AddU16(Addr(n), off, oc)
        r == SubU16(a.val, 2, oc)
    IN IF a.ok /\ r.ok THEN [s EXCEPT !.pc = r.val] ELSE Panic(s, PANIC_ARITH)

\* CXNN: VX = random byte AND NN
Op_CXNN(s, n, random_byte) ==
    IF n[2] < 16
    THEN [s EXCEPT !.v[n[2]] = Bitwise("and", random_byte, Imm(n) % U8, 0)]
    ELSE [s EXCEPT !.out = MSG_REGISTER]

\* DXYN with the sprite ORed onto the screen instead of XORed
RECURSIVE DrawCols_or(_, _, _, _, _, _)
DrawCols_or(d, sprite_byte, x, y, row, col) ==
    IF col >= 8 \/ col > SCREEN_WIDTH THEN d
    ELSE LET pixel == (sprite_byte \div (2 ^ (7 - col))) % 2 = 1
             display_x == (x + col) % SCREEN_WIDTH
             display_y == (y + row) % SCREEN_HEIGHT
             drawn == [d.pixels EXCEPT ![display_y][display_x] = (@ \/ pixel)]
         IN IF d.pixels[display_y][display_x] /\ pixel
            THEN DrawCols_or([pixels |-> drawn, vf |-> 1], sprite_byte, x, y, row, col + 1)
            ELSE DrawCols_or([pixels |-> drawn, vf |-> d.vf], sprite_byte, x, y, row, col + 1)

\* DXYN with the sprite clipped at the right and bottom edges instead of wrapped
RECURSIVE DrawCols_clip(_, _, _, _, _, _)
DrawCols_clip(d, sprite_byte, x, y, row, col) ==
    IF col >= 8 \/ col > SCREEN_WIDTH THEN d
    ELSE LET pixel == (sprite_byte \div (2 ^ (7 - col))) % 2 = 1
             inside == x + col < SCREEN_WIDTH /\ y + row < SCREEN_HEIGHT
             display_x == (x + col) % SCREEN_WIDTH
             display_y == (y + row) % SCREEN_HEIGHT
             drawn == [d.pixels EXCEPT ![display_y][display_x] = (@ # (inside /\ pixel))]
         IN IF d.pixels[display_y][display_x] /\ inside /\ pixel
            THEN DrawCols_clip([pixels |-> drawn, vf |-> 1], sprite_byte, x, y, row, col + 1)
            ELSE DrawCols_clip([pixels |-> drawn, vf |-> d.vf], sprite_byte, x, y, row, col + 1)

\* DXYN with the collision test made after the pixel has been XORed
RECURSIVE DrawCols_collision_after(_, _, _, _, _, _)
DrawCols_collision_after(d, sprite_byte, x, y, row, col) ==
    IF col >= 8 \/ col > SCREEN_WIDTH THEN d
    ELSE LET pixel == (sprite_byte \div (2 ^ (7 - col))) % 2 = 1
             display_x == (x + col) % SCREEN_WIDTH
             display_y == (y + row) % SCREEN_HEIGHT
             drawn == [d.pixels EXCEPT ![display_y][display_x] = (@ # pixel)]
         IN IF drawn[display_y][display_x] /\ pixel
            THEN DrawCols_collision_after([pixels |-> drawn, vf |-> 1], sprite_byte, x, y, row, col + 1)
            ELSE DrawCols_collision_after([pixels |-> drawn, vf |-> d.vf], sprite_byte, x, y, row, col + 1)

\* DXYN: the loop over the 8 columns of one sprite row; the collision test reads
\* the pixel before the XOR
RECURSIVE DrawCols(_, _, _, _, _, _)
DrawCols(d, sprite_byte, x, y, row, col) ==
    IF col >= 8 \/ col > SCREEN_WIDTH THEN d
    ELSE LET pixel == (sprite_byte \div (2 ^ (7 - col))) % 2 = 1
             display_x == (x + col) % SCREEN_WIDTH
             display_y == (y + row) % SCREEN_HEIGHT
             drawn == [d.pixels EXCEPT ![display_y][display_x] = (@ # pixel)]
         IN IF d.pixels[display_y][display_x] /\ pixel
            THEN DrawCols([pixels |-> drawn, vf |-> 1], sprite_byte, x, y, row, col + 1)
            ELSE DrawCols([pixels |-> drawn, vf |-> d.vf], sprite_byte, x, y, row, col + 1)

\* DXYN: the loop over the rows; the sprite byte is read modulo the memory size
RECURSIVE DrawRows(_, _, _, _, _, _, _)
DrawRows(d, memory, i, x, y, n, row) ==
    IF row >= n \/ row > SCREEN_HEIGHT THEN d
    ELSE DrawRows(DrawCols(d, memory[(i + row) % RAM_SIZE], x, y, row, 0),
                  memory, i, x, y, n, row + 1)

\* DXYN leaving V15 as it was
Op_DXYN_no_flag(s, n) ==
    LET x0 == s.v[n[2]]
        y0 == s.v[n[3]]
        wrap == x0 >= SCREEN_WIDTH \/ y0 >= SCREEN_HEIGHT
        x == IF wrap THEN x0 % SCREEN_WIDTH ELSE x0
        y == IF wrap THEN y0 % SCREEN_HEIGHT ELSE y0
        d == DrawRows([pixels |-> s.pixels, vf |-> 0], s.memory, s.i, x, y, n[4], 0)
    IN [s EXCEPT !.pixels = d.pixels]

\* DXYN: draw the N-row sprite at I on (VX, VY); VF = 0, then 1 on a collision
Op_DXYN(s, n) ==
    LET x0 == s.v[n[2]]
        y0 == s.v[n[3]]
        wrap == x0 >= SCREEN_WIDTH \/ y0 >= SCREEN_HEIGHT
        x == IF wrap THEN x0 % SCREEN_WIDTH ELSE x0
        y == IF wrap THEN y0 % SCREEN_HEIGHT ELSE y0
        d == DrawRows([pixels |-> s.pixels, vf |-> 0], s.memory, s.i, x, y, n[4], 0)
    IN [s EXCEPT !.pixels = d.pixels, !.v[15] = d.vf]

\* EX9E, EXA1: `keys[key as usize]` with key = VX
KeyInRange(key) == key < KEY_COUNT

\* EX9E: skip if the key VX is pressed
Op_EX9E(s, n, keys, oc) ==
    LET key == s.v[n[2]]
    IN IF ~KeyInRange(key) THEN Panic(s, PANIC_KEYS)
       ELSE IF n[2] < 16 /\ keys[key] THEN AdvancePc(s, oc) ELSE s

\* EXA1: skip if the key VX is not pressed
Op_EXA1(s, n, keys, oc) ==
    LET key == s.v[n[2]]
    IN IF ~KeyInRange(key) THEN Panic(s, PANIC_KEYS)
       ELSE IF n[2] < 16 /\ ~keys[key] THEN AdvancePc(s, oc) ELSE s

\* FX07: VX = delay timer
Op_FX07(s, n) ==
    IF n[2] < 16 THEN [s EXCEPT !.v[n[2]] = s.delay_timer]
    ELSE [s EXCEPT !.out = MSG_REGISTER]

\* the scan keeping the last pressed key instead of stopping at the first
FirstPressed_last(keys) ==
    IF \E k \in 0 .. KEY_COUNT - 1 : keys[k]
    THEN CHOOSE k \in 0 .. KEY_COUNT - 1 :
             keys[k] /\ \A j \in k + 1 .. KEY_COUNT - 1 : ~keys[j]
    ELSE KEY_COUNT

\* FX0A: the scan for the first pressed key; KEY_COUNT stands for None
FirstPressed(keys) ==
    IF \E k \in 0 .. KEY_COUNT - 1 : keys[k]
    THEN CHOOSE k \in 0 .. KEY_COUNT - 1 :
             keys[k] /\ \A j \in 0 .. k - 1 : ~keys[j]
    ELSE KEY_COUNT

\* FX0A: wait for a key; without one `self.pc -= 2` repeats the instruction
Op_FX0A(s, n, keys, oc) ==
    LET key == FirstPressed(keys)
    IN IF key < KEY_COUNT
       THEN IF n[2] < 16 THEN [s EXCEPT !.v[n[2]] = key]
            ELSE [s EXCEPT !.out = MSG_REGISTER]
       ELSE LET r == SubU16(s.pc, 2, oc)
            IN IF r.ok THEN [s EXCEPT !.pc = r.val] ELSE Panic(s, PANIC_ARITH)

\* FX15: delay timer = VX
Op_FX15(s, n) ==
    IF n[2] < 16 THEN [s EXCEPT !.delay_timer = s.v[n[2]]]
    ELSE [s EXCEPT !.out = MSG_REGISTER]

\* FX18: sound timer = VX
Op_FX18(s, n) ==
    IF n[2] < 16 THEN [s EXCEPT !.sound_timer = s.v[n[2]]]
    ELSE [s EXCEPT !.out = MSG_REGISTER]

\* FX1E: I += VX
Op_FX1E(s, n, oc) ==
    IF n[2] < 16
    THEN LET r == AddU16(s.i, s.v[n[2]], oc)
         IN IF r.ok THEN [s EXCEPT !.i = r.val] ELSE Panic(s, PANIC_ARITH)
    ELSE [s EXCEPT !.out = MSG_REGISTER]

\* FX29: the address computed for the font character VX
FontCharAddress(vx) == FONT_ADDRESS + vx

\* FX29: I = address of the font character VX
Op_FX29(s, n) ==
    IF n[2] < 16 THEN [s EXCEPT !.i = FontCharAddress(s.v[n[2]])]
    ELSE [s EXCEPT !.out = MSG_REGISTER]

\* FX33: the digits of VX go to memory.data[I], [I + 1], [I + 2], unchecked
Op_FX33(s, n) ==
    LET val == s.v[n[2]]
    IN IF n[2] < 16
       THEN IF s.i + 2 >= RAM_SIZE THEN Panic(s, PANIC_MEMORY)
            ELSE [s EXCEPT !.memory = [s.memory EXCEPT ![s.i] = val \div 100,
                                                      ![s.i + 1] = (val \div 10) % 10,
                                                      ![s.i + 2] = val % 10]]
       ELSE [s EXCEPT !.out = MSG_REGISTER]

\* FX55: `memory.data[self.i] = self.v[k]; self.i += 1` for k in 0..=X
RECURSIVE StoreRegisters(_, _, _)
StoreRegisters(s, k, x) ==
    IF k > x THEN s
    ELSE IF s.i >= RAM_SIZE THEN Panic(s, PANIC_MEMORY)
    ELSE StoreRegisters([s EXCEPT !.memory[s.i] = s.v[k], !.i = s.i + 1], k + 1, x)

\* FX65: `self.v[k] = memory.data[self.i]; self.i += 1` for k in 0..=X
RECURSIVE LoadRegisters(_, _, _)
LoadRegisters(s, k, x) ==
    IF k > x THEN s
    ELSE IF s.i >= RAM_SIZE THEN Panic(s, PANIC_MEMORY)
    ELSE LoadRegisters([s EXCEPT !.v[k] = s.memory[s.i], !.i = s.i + 1], k + 1, x)

\* FX55: store V0..VX at I
Op_FX55(s, n) ==
    IF n[2] < 16
    THEN LET r == StoreRegisters(s, 0, n[2])
         IN IF r.panicked # NO_PANIC THEN Panic(s, r.panicked) ELSE r
    ELSE [s EXCEPT !.out = MSG_REGISTER]

\* FX65: load V0..VX from I
Op_FX65(s, n) ==
    IF n[2] < 16
    THEN LET r == LoadRegisters(s, 0, n[2])
         IN IF r.panicked # NO_PANIC THEN Panic(s, r.panicked) ELSE r
    ELSE [s EXCEPT !.out = MSG_REGISTER]

\* a default arm that aborts the run
Op_Unknown_abort(s) == Panic(s, PANIC_ARITH)

\* the default arm
Op_Unknown(s) == [s EXCEPT !.out = MSG_UNKNOWN]

\* the match on the nibbles
Execute(s, n, keys, random_byte, oc) ==
    CASE n[1] = 0 /\ n[2] = 0 /\ n[3] = 14 /\ n[4] = 0 -> Op_00E0(s)
      [] n[1] = 0 /\ n[2] = 0 /\ n[3] = 14 /\ n[4] = 14 -> Op_00EE(s)
      [] n[1] = 1 -> Op_1NNN(s, n, oc)
      [] n[1] = 2 -> Op_2NNN(s, n, oc)
      [] n[1] = 3 -> Op_3XNN(s, n, oc)
      [] n[1] = 4 -> Op_4XNN(s, n, oc)
      [] n[1] = 5 /\ n[4] = 0 -> Op_5XY0(s, n, oc)
      [] n[1] = 6 -> Op_6XNN(s, n)
      [] n[1] = 7 -> Op_7XNN(s, n)
      [] n[1] = 8 /\ n[4] = 0 -> Op_8XY0(s, n)
      [] n[1] = 8 /\ n[4] = 1 -> Op_8XY_logic(s, n, "or")
      [] n[1] = 8 /\ n[4] = 2 -> Op_8XY_logic(s, n, "and")
      [] n[1] = 8 /\ n[4] = 3 -> Op_8XY_logic(s, n, "xor")
      [] n[1] = 8 /\ n[4] = 4 -> Op_8XY4(s, n)
      [] n[1] = 8 /\ n[4] = 5 -> Op_8XY5(s, n)
      [] n[1] = 8 /\ n[4] = 6 -> Op_8XY6(s, n)
      [] n[1] = 8 /\ n[4] = 7 -> Op_8XY7(s, n)
      [] n[1] = 8 /\ n[4] = 14 -> Op_8XYE(s, n)
      [] n[1] = 9 /\ n[4] = 0 -> Op_9XY0(s, n, oc)
      [] n[1] = 10 -> Op_ANNN(s, n)
      [] n[1] = 11 -> Op_BNNN(s, n, oc)
      [] n[1] = 12 -> Op_CXNN(s, n, random_byte)
      [] n[1] = 13 -> Op_DXYN(s, n)
      [] n[1] = 14 /\ n[3] = 9 /\ n[4] = 14 -> Op_EX9E(s, n, keys, oc)
      [] n[1] = 14 /\ n[3] = 10 /\ n[4] = 1 -> Op_EXA1(s, n, keys, oc)
      [] n[1] = 15 /\ n[3] = 0 /\ n[4] = 7 -> Op_FX07(s, n)
      [] n[1] = 15 /\ n[3] = 0 /\ n[4] = 10 -> Op_FX0A(s, n, keys, oc)
      [] n[1] = 15 /\ n[3] = 1 /\ n[4] = 5 -> Op_FX15(s, n)
      [] n[1] = 15 /\ n[3] = 1 /\ n[4] = 8 -> Op_FX18(s, n)
      [] n[1] = 15 /\ n[3] = 1 /\ n[4] = 14 -> Op_FX1E(s, n, oc)
      [] n[1] = 15 /\ n[3] = 2 /\ n[4] = 9 -> Op_FX29(s, n)
      [] n[1] = 15 /\ n[3] = 3 /\ n[4] = 3 -> Op_FX33(s, n)
      [] n[1] = 15 /\ n[3] = 5 /\ n[4] = 5 -> Op_FX55(s, n)
      [] n[1] = 15 /\ n[3] = 6 /\ n[4] = 5 -> Op_FX65(s, n)
      [] OTHER -> Op_Unknown(s)

\* CPU::decode: fetch, match, `self.pc += 2`
decode(s, keys, random_byte, oc) ==
    LET s0 == [s EXCEPT !.out = MSG_NONE]
    IN IF ~FetchInRange(s.pc) THEN Panic(s0, PANIC_MEMORY)
       ELSE LET r == Execute(s0, Nibbles(Fetch(s.memory, s.pc)), keys, random_byte, oc)
            IN IF r.panicked # NO_PANIC THEN r ELSE AdvancePc(r, oc)

(***************************************************************************)
(* The state.                                                              *)
(*   pc, sp, stack, v, i          the fields of CPU                        *)
(*   delay_timer, sound_timer     the two counters behind their mutexes    *)
(*   delay_lock, sound_lock       who holds each mutex                     *)
(*   timer_pc                     where the timer thread stands            *)
(*   timer_loaded                 the counter value the thread has read    *)
(*   memory                       Memory::data                             *)
(*   pixels                       Display::pixels, pixels[y][x]            *)
(*   keys                         Emulator::keys                           *)
(*   out                          the diagnostic printed by the last cycle *)
(*   panicked                     the panic that ended the interpreter     *)
(*   overflow_checks              the build profile                        *)
(*   phase                        where the driver stands                  *)
(*   pixel_buffer                 the frames in the pixel buffer channel   *)
(*   receiver_alive               the receiver of the channel is not       *)
(*                                dropped                                  *)
(*   display_pc                   where a call of Display::draw_sprite     *)
(*                                stands: "idle", or "send" with the grid  *)
(*                                drawn and the frame not yet sent         *)
(***************************************************************************)
VARIABLES pc, sp, stack, v, i, delay_timer, sound_timer, delay_lock, sound_lock,
          timer_pc, timer_loaded, memory, pixels, keys, out, panicked, overflow_checks, phase,
          pixel_buffer, receiver_alive, display_pc

cpu_vars == << pc, sp, stack, v, i, delay_timer, sound_timer, memory, pixels, out, panicked >>
display_vars == << pixel_buffer, receiver_alive, display_pc >>
vars == << pc, sp, stack, v, i, delay_timer, sound_timer, delay_lock, sound_lock,
           timer_pc, timer_loaded, memory, pixels, keys, out, panicked, overflow_checks, phase,
           pixel_buffer, receiver_alive, display_pc >>

\* the machine decode works on
Machine ==
    [pc |-> pc, sp |-> sp, stack |-> stack, v |-> v, i |-> i,
     delay_timer |-> delay_timer, sound_timer |-> sound_timer,
     memory |-> memory, pixels |-> pixels, out |-> out, panicked |-> panicked]

\* the instruction word at pc
Opcode == Fetch(memory, pc)

\* Emulator::new: Memory::new, Display::new, CPU::new(ROM_ADDRESS), keys released;
\* the timer thread is spawned and about to take the delay lock
Init ==
    /\ pc = ROM_ADDRESS
    /\ sp = 0
    /\ stack = [k \in 0 .. STACK_LEN - 1 |-> 0]
    /\ v = [k \in 0 .. 15 |-> 0]
    /\ i = 0
    /\ delay_timer = 0
    /\ sound_timer = 0
    /\ delay_lock = "free"
    /\ sound_lock = "free"
    /\ timer_pc = "lock_delay"
    /\ timer_loaded = 0
    /\ memory = MemoryNew
    /\ pixels = BlankPixels
    /\ keys = [k \in 0 .. KEY_COUNT - 1 |-> FALSE]
    /\ out = MSG_NONE
    /\ panicked = NO_PANIC
    /\ overflow_checks \in BOOLEAN
    /\ phase = "new"
    /\ pixel_buffer = << >>
    /\ receiver_alive = TRUE
    /\ display_pc = "idle"

(***************************************************************************)
(* The driver: set_font, load_rom, then cycles and key events.             *)
(***************************************************************************)
\* Emulator::set_font(Emulator::get_font())
set_font ==
    /\ phase = "new"
    /\ display_pc = "idle"
    /\ memory' = SetFont(memory, get_font)
    /\ phase' = "font"
    /\ UNCHANGED << pc, sp, stack, v, i, delay_timer, sound_timer, delay_lock, sound_lock,
                    timer_pc, timer_loaded, pixels, keys, out, panicked, overflow_checks >>
    /\ UNCHANGED display_vars

\* Emulator::load_rom(rom): Err and nothing written, or the copy
load_rom(rom) ==
    /\ phase = "font"
    /\ display_pc = "idle"
    /\ IF RomTooLarge(rom)
       THEN /\ phase' = "rejected"
            /\ UNCHANGED memory
       ELSE /\ phase' = "run"
            /\ memory' = CopyRom(memory, rom)
    /\ UNCHANGED << pc, sp, stack, v, i, delay_timer, sound_timer, delay_lock, sound_lock,
                    timer_pc, timer_loaded, pixels, keys, out, panicked, overflow_checks >>
    /\ UNCHANGED display_vars

\* the keys the event loop of Emulator::run maps to set_key: 0x1 .. 0xF
DriverKeys == 1 .. KEY_COUNT - 1

\* Emulator::set_key(key, pressed)
set_key(key, pressed) ==
    /\ phase = "run"
    /\ display_pc = "idle"
    /\ keys' = IF key < 16 THEN [keys EXCEPT ![key] = pressed] ELSE keys
    /\ UNCHANGED << pc, sp, stack, v, i, delay_timer, sound_timer, delay_lock, sound_lock,
                    timer_pc, timer_loaded, memory, pixels, out, panicked, overflow_checks, phase >>
    /\ UNCHANGED display_vars

\* the delay timer read and written by decode without taking its mutex
LocksDelay_never(n) == FALSE

\* the arms of decode that lock the delay timer, and the sound timer
LocksDelay(n) == n[1] = 15 /\ n[3] * 16 + n[4] \in {7, 21}
LocksSound(n) == n[1] = 15 /\ n[3] * 16 + n[4] = 24

\* the bytes rand::random::<u8>() can return, drawn only by CXNN
RandomBytes(n) == IF n[1] = 12 THEN 0 .. 255 ELSE {0}

\* Emulator::cycle: one CPU::decode.  An arm that locks a timer waits for
\* the mutex; the guard is dropped before decode returns.
cycle ==
    /\ phase = "run"
    /\ panicked = NO_PANIC
    /\ display_pc = "idle"
    /\ LET n == IF FetchInRange(pc) THEN Nibbles(Opcode) ELSE << 0, 0, 0, 0 >>
       IN /\ LocksDelay(n) => delay_lock = "free"
          /\ LocksSound(n) => sound_lock = "free"
          /\ \E random_byte \in RandomBytes(n) :
                LET r == decode(Machine, keys, random_byte, overflow_checks)
                IN /\ pc' = r.pc
                   /\ sp' = r.sp
                   /\ stack' = r.stack
                   /\ v' = r.v
                   /\ i' = r.i
                   /\ delay_timer' = r.delay_timer
                   /\ sound_timer' = r.sound_timer
                   /\ memory' = r.memory
                   /\ pixels' = r.pixels
                   /\ out' = r.out
                   /\ panicked' = r.panicked
    /\ UNCHANGED << delay_lock, sound_lock, timer_pc, timer_loaded, keys, overflow_checks, phase >>
    /\ UNCHANGED display_vars

(***************************************************************************)
(* The timer thread of CPU::new: lock delay, decrement, unlock; lock       *)
(* sound, decrement, unlock; sleep.  The decrement is a read of the        *)
(* counter followed by a write of the value computed from that read; the   *)
(* mutex held across both is what keeps a set from landing in between.     *)
(***************************************************************************)
\* the write-back without the test for zero: a wrapping decrement
TimerTick_unguarded(t) == (t + U8 - 1) % U8

\* the value written back under the lock: `if *timer > 0 { *timer -= 1 }`
TimerTick(t) == IF t > 0 THEN t - 1 ELSE t

timer_lock_delay ==
    /\ timer_pc = "lock_delay"
    /\ delay_lock = "free"
    /\ delay_lock' = "timer"
    /\ timer_pc' = "load_delay"
    /\ UNCHANGED << pc, sp, stack, v, i, delay_timer, sound_timer, sound_lock, timer_loaded,
                    memory, pixels, keys, out, panicked, overflow_checks, phase >>
    /\ UNCHANGED display_vars

timer_load_delay ==
    /\ timer_pc = "load_delay"
    /\ timer_loaded' = delay_timer
    /\ timer_pc' = "tick_delay"
    /\ UNCHANGED << pc, sp, stack, v, i, delay_timer, sound_timer, delay_lock, sound_lock,
                    memory, pixels, keys, out, panicked, overflow_checks, phase >>
    /\ UNCHANGED display_vars

\* a timer thread that keeps the delay mutex after its decrement: the guard
\* is not dropped at the end of the block
timer_tick_delay_keeps_lock ==
    /\ timer_pc = "tick_delay"
    /\ delay_timer' = TimerTick(timer_loaded)
    /\ timer_loaded' = 0
    /\ timer_pc' = "lock_sound"
    /\ UNCHANGED << pc, sp, stack, v, i, sound_timer, delay_lock, sound_lock,
                    memory, pixels, keys, out, panicked, overflow_checks, phase >>
    /\ UNCHANGED display_vars

timer_tick_delay ==
    /\ timer_pc = "tick_delay"
    /\ delay_timer' = TimerTick(timer_loaded)
    /\ timer_loaded' = 0
    /\ delay_lock' = "free"
    /\ timer_pc' = "lock_sound"
    /\ UNCHANGED << pc, sp, stack, v, i, sound_timer, sound_lock,
                    memory, pixels, keys, out, panicked, overflow_checks, phase >>
    /\ UNCHANGED display_vars

timer_lock_sound ==
    /\ timer_pc = "lock_sound"
    /\ sound_lock = "free"
    /\ sound_lock' = "timer"
    /\ timer_pc' = "load_sound"
    /\ UNCHANGED << pc, sp, stack, v, i, delay_timer, sound_timer, delay_lock, timer_loaded,
                    memory, pixels, keys, out, panicked, overflow_checks, phase >>
    /\ UNCHANGED display_vars

timer_load_sound ==
    /\ timer_pc = "load_sound"
    /\ timer_loaded' = sound_timer
    /\ timer_pc' = "tick_sound"
    /\ UNCHANGED << pc, sp, stack, v, i, delay_timer, sound_timer, delay_lock, sound_lock,
                    memory, pixels, keys, out, panicked, overflow_checks, phase >>
    /\ UNCHANGED display_vars

timer_tick_sound ==
    /\ timer_pc = "tick_sound"
    /\ sound_timer' = TimerTick(timer_loaded)
    /\ timer_loaded' = 0
    /\ sound_lock' = "free"
    /\ timer_pc' = "sleep"
    /\ UNCHANGED << pc, sp, stack, v, i, delay_timer, delay_lock,
                    memory, pixels, keys, out, panicked, overflow_checks, phase >>
    /\ UNCHANGED display_vars

\* a timer thread that returns after its first pass instead of looping
timer_sleep_returns ==
    /\ timer_pc = "sleep"
    /\ timer_pc' = "returned"
    /\ UNCHANGED << pc, sp, stack, v, i, delay_timer, sound_timer, delay_lock, sound_lock,
                    timer_loaded, memory, pixels, keys, out, panicked, overflow_checks, phase >>
    /\ UNCHANGED display_vars

timer_sleep ==
    /\ timer_pc = "sleep"
    /\ timer_pc' = "lock_delay"
    /\ UNCHANGED << pc, sp, stack, v, i, delay_timer, sound_timer, delay_lock, sound_lock,
                    timer_loaded, memory, pixels, keys, out, panicked, overflow_checks, phase >>
    /\ UNCHANGED display_vars

timer_thread ==
    \/ timer_lock_delay
    \/ timer_load_delay
    \/ timer_tick_delay
    \/ timer_lock_sound
    \/ timer_load_sound
    \/ timer_tick_sound
    \/ timer_sleep

\* every step of the program, the ROM given to load_rom drawn from `roms` and
\* the keys of the key events from `driver_keys`
NextWith(roms, driver_keys) ==
    \/ set_font
    \/ \E rom \in roms : load_rom(rom)
    \/ cycle
    \/ \E key \in driver_keys \cup {KEY_COUNT}, pressed \in BOOLEAN : set_key(key, pressed)
    \/ timer_thread

\* the steps of a family of programs: its ROMs, and the key events of the
\* first MaxKey driver keys
NextOn(roms) == NextWith(roms, { key \in DriverKeys : key <= MaxKey })

(***************************************************************************)
(* Programs.                                                               *)
(***************************************************************************)
\* the bytes of a sequence of instruction words, high byte first
Assemble(ops) ==
    [k \in 1 .. 2 * Len(ops) |->
        IF k % 2 = 1 THEN ops[(k + 1) \div 2] \div 256 ELSE ops[k \div 2] % 256]

\* an instruction word from its four nibbles, the inverse of Nibbles
Word(a, b, c, d) == a * 4096 + b * 256 + c * 16 + d

\* an instruction word with a 12-bit address: 1NNN, 2NNN, ANNN, BNNN
WithAddr(a, addr) == a * 4096 + addr

\* an instruction word with a register and an immediate: 3XNN, 4XNN, 6XNN, 7XNN, CXNN
WithImm(a, x, nn) == a * 4096 + x * 256 + nn

\* 1NNN to its own address: the program stays there
Halt(addr) == WithAddr(1, addr)

\* 00EE
Ret == Word(0, 0, 14, 14)

(***************************************************************************)
(* Call and return: a ladder of MaxDepth nested subroutines.  Subroutine k *)
(* at ROM_ADDRESS + 4k calls subroutine k + 1 and returns; the last one    *)
(* only returns.  After the ladder unwinds, the return at the top level    *)
(* finds the stack empty.                                                  *)
(***************************************************************************)
Ladder(d) ==
    [j \in 1 .. 2 * d + 2 |->
        IF j = 2 * d + 2 THEN Halt(ROM_ADDRESS + 4 * d + 2)
        ELSE IF j % 2 = 1 /\ j < 2 * d THEN WithAddr(2, ROM_ADDRESS + 2 * (j + 1))
        ELSE Ret]

CallRoms == { Assemble(Ladder(MaxDepth)) }

NextCall == NextOn(CallRoms)
SpecCall == Init /\ [][NextCall]_vars

\* C2: call then return restores PC to the instruction after the call, to a
\* nesting depth of 16: a call made with fewer than 16 entries on the stack
\* pushes the address of the call and transfers control to NNN, and a return
\* with a non-empty stack pops the top entry and lands on the instruction
\* after the call it names.
C2_CallReturnDepth16 ==
    [][(cycle /\ FetchInRange(pc)) =>
          /\ (Opcode \div 4096 = 2 /\ sp < 16) =>
                (sp' = sp + 1 /\ stack'[sp] = pc /\ pc' = Opcode % 4096)
          /\ (Opcode = Ret /\ sp > 0) =>
                (sp' = sp - 1 /\ pc' = stack[sp - 1] + 2)]_vars

\* C3: a call attempted when the stack is as deep as the interpreter lets it
\* grow is rejected without effect: stack, sp, registers, index pointer,
\* memory and display are unchanged, PC advances by 2 and the run goes on.
C3_CallAtMaxDepthRejected ==
    [][(cycle /\ FetchInRange(pc) /\ Opcode \div 4096 = 2 /\ sp >= STACK_LEN - 1) =>
          /\ pc' = pc + 2
          /\ UNCHANGED << sp, stack, v, i, memory, pixels >>
          /\ panicked' = NO_PANIC]_vars

\* a rejected call has just been executed
C3_Witness == out = MSG_OVERFLOW /\ sp = STACK_LEN - 1 /\ panicked = NO_PANIC

\* C4: a return executed with sp = 0 has no effect on the machine and PC
\* advances by 2.
C4_ReturnOnEmptyStack ==
    [][(cycle /\ FetchInRange(pc) /\ Opcode = Ret /\ sp = 0) =>
          /\ pc' = pc + 2
          /\ UNCHANGED << sp, stack, v, i, memory, pixels >>
          /\ panicked' = NO_PANIC]_vars

\* a return on the empty stack has just been executed
C4_Witness == out = MSG_UNDERFLOW /\ sp = 0 /\ panicked = NO_PANIC

(***************************************************************************)
(* Memory edges: a jump to the last byte, and the instructions that        *)
(* address memory through I, with I inside the memory and at its end.      *)
(***************************************************************************)
MemEdges == { 768, RAM_SIZE - 3, RAM_SIZE - 2, RAM_SIZE - 1 }

MemRoms ==
    { Assemble(<< Halt(RAM_SIZE - 2) >>), Assemble(<< WithAddr(1, RAM_SIZE - 1) >>) }
    \cup { Assemble(<< WithAddr(10, a), WithImm(6, 1, 123), Word(15, 1, 3, 3),
                       Halt(ROM_ADDRESS + 6) >>) : a \in MemEdges }
    \cup { Assemble(<< WithAddr(10, a), WithImm(6, 1, 123), Word(15, 1, 5, 5),
                       Halt(ROM_ADDRESS + 6) >>) : a \in MemEdges }
    \cup { Assemble(<< WithAddr(10, a), Word(15, 1, 6, 5),
                       Halt(ROM_ADDRESS + 4) >>) : a \in MemEdges }
    \cup { Assemble(<< WithAddr(10, a), Word(13, 0, 0, 2),
                       Halt(ROM_ADDRESS + 4) >>) : a \in MemEdges }

NextMem == NextOn(MemRoms)
SpecMem == Init /\ [][NextMem]_vars

\* C1: every memory access of a cycle (the fetch at pc and pc + 1, the
\* sprite read, the BCD writes at I..I+2, the register transfers at I..I+X)
\* uses an address in 0..4095, so no access is out of range and the cycle
\* completes.
C1_MemoryAccessInRange == panicked # PANIC_MEMORY

(***************************************************************************)
(* Unknown opcodes: one program that sets registers, the index pointer,    *)
(* the display, both timers and the stack, then runs through a sample of   *)
(* the instruction words no arm of decode matches.                         *)
(***************************************************************************)
\* the words of the sample: first nibble of every family with a default
\* case, register nibbles 0 and F, low nibbles around the known patterns
SampleWords ==
    { Word(a, b, c, d) : a \in {0, 5, 8, 9, 14, 15}, b \in {0, 15},
                         c \in {0, 1, 9, 10, 14}, d \in {0, 1, 8, 13, 14, 15} }

\* the instruction words that match no arm, family by family
NoKnownPattern(op) ==
    LET n == Nibbles(op)
        low == n[3] * 16 + n[4]
    IN \/ n[1] = 0 /\ op \notin {224, 238}
       \/ n[1] = 5 /\ n[4] # 0
       \/ n[1] = 8 /\ n[4] \in (8 .. 13) \cup {15}
       \/ n[1] = 9 /\ n[4] # 0
       \/ n[1] = 14 /\ low \notin {158, 161}
       \/ n[1] = 15 /\ low \notin {7, 10, 21, 24, 30, 41, 51, 85, 101}

\* a set of numbers as an increasing sequence
Sorted(S) ==
    [j \in 1 .. Cardinality(S) |->
        CHOOSE x \in S : Cardinality({ y \in S : y < x }) = j - 1]

UnknownSetup ==
    << WithImm(6, 0, 1), WithImm(6, 1, 171), WithImm(6, 15, 238),
       WithAddr(10, FONT_ADDRESS), Word(13, 0, 1, 5),
       Word(15, 0, 1, 5), Word(15, 0, 1, 8),
       WithAddr(2, ROM_ADDRESS + 16) >>

UnknownOps == Sorted({ op \in SampleWords : NoKnownPattern(op) })

UnknownRoms ==
    { Assemble(UnknownSetup \o UnknownOps
               \o << Halt(ROM_ADDRESS + 2 * (Len(UnknownSetup) + Len(UnknownOps))) >>) }

NextUnknown == NextOn(UnknownRoms)
SpecUnknown == Init /\ [][NextUnknown]_vars

\* C5: an instruction word that matches no known pattern (0NNN other than
\* 00E0/00EE, 5XY1..5XYF, 8XY8..8XYD, 8XYF, 9XY1..9XYF, EXxx other than
\* EX9E/EXA1, FXxx other than the listed sub-operations) is a no-op: PC
\* advances by exactly 2 and sp, stack, registers, index pointer, memory,
\* display and both timers are unchanged.
C5_UnknownOpcodeIsNoOp ==
    [][(cycle /\ FetchInRange(pc) /\ NoKnownPattern(Opcode)) =>
          /\ pc' = pc + 2
          /\ UNCHANGED << sp, stack, v, i, memory, pixels, delay_timer, sound_timer >>
          /\ panicked' = NO_PANIC]_vars

\* an unknown opcode has just been executed on a machine with a non-empty
\* stack, non-zero registers and a lit display
C5_Witness ==
    /\ out = MSG_UNKNOWN
    /\ panicked = NO_PANIC
    /\ sp = 1
    /\ v[1] = 171
    /\ i = FONT_ADDRESS
    /\ pixels # BlankPixels

(***************************************************************************)
(* Font characters: load a digit, then FX29.                               *)
(***************************************************************************)
FontDigits == {0, 1, 10, 15}

FontRoms ==
    { Assemble(<< WithImm(6, x, d), Word(15, x, 2, 9), Halt(ROM_ADDRESS + 4) >>) :
        x \in {0, 3}, d \in FontDigits }

NextFont == NextOn(FontRoms)
SpecFont == Init /\ [][NextFont]_vars

\* C6: load-font-character (FX29) sets the index pointer to
\* font_base + 5 * VX, the address of the 5-byte glyph of the digit VX; the
\* program 60 0A, F0 29 leaves I = 0x050 + 50.
C6_FontCharacterAddress ==
    [][(cycle /\ FetchInRange(pc) /\ Opcode \div 4096 = 15 /\ Opcode % 256 = 41) =>
          i' = FONT_ADDRESS + 5 * v[(Opcode \div 256) % 16]]_vars

(***************************************************************************)
(* Key skips: load a value, then EX9E or EXA1; both landing places halt.   *)
(***************************************************************************)
KeyValues == {0, 1, 2, 15, 16, 17, 255}

KeyRoms ==
    { Assemble(<< WithImm(6, x, val), Word(14, x, c[1], c[2]),
                  Halt(ROM_ADDRESS + 4), Halt(ROM_ADDRESS + 6) >>) :
        x \in {0, 7}, val \in KeyValues, c \in { << 9, 14 >>, << 10, 1 >> } }

NextKey == NextOn(KeyRoms)
SpecKey == Init /\ [][NextKey]_vars

\* C7: EX9E and EXA1 compare the low nibble of VX against the key vector:
\* for every VX in 0..255 the cycle completes, EX9E advances PC by 4 iff
\* keys[VX mod 16] is pressed and by 2 otherwise, EXA1 by 4 iff it is not
\* pressed and by 2 otherwise.
C7_KeySkipLowNibble ==
    [][(cycle /\ FetchInRange(pc) /\ Opcode \div 4096 = 14 /\ Opcode % 256 \in {158, 161}) =>
          LET pressed == keys[v[(Opcode \div 256) % 16] % 16]
              skip == IF Opcode % 256 = 158 THEN pressed ELSE ~pressed
          IN /\ panicked' = NO_PANIC
             /\ pc' = pc + (IF skip THEN 4 ELSE 2)]_vars

(***************************************************************************)
(* Jumps: the program stores a jump-to-itself at the target (through       *)
(* FX55), then jumps there; and a plain jump to the last byte.             *)
(***************************************************************************)
JumpTargets == {0, 1, 2, 3, 767, 768, RAM_SIZE - 2}

JumpRoms ==
    { Assemble(<< WithAddr(10, t), WithImm(6, 0, Halt(t) \div 256),
                  WithImm(6, 1, Halt(t) % 256), Word(15, 1, 5, 5),
                  WithAddr(1, t) >>) : t \in JumpTargets }
    \cup { Assemble(<< WithAddr(1, RAM_SIZE - 1) >>) }

NextJump == NextOn(JumpRoms)
SpecJump == Init /\ [][NextJump]_vars

\* C8: jump (1NNN) sets PC to NNN for every 12-bit NNN, NNN = 0 and NNN = 1
\* included: after the cycle PC = NNN, and sp, stack, registers, index
\* pointer, memory and display are unchanged.
C8_JumpSetsPc ==
    [][(cycle /\ FetchInRange(pc) /\ Opcode \div 4096 = 1) =>
          /\ panicked' = NO_PANIC
          /\ pc' = Opcode % 4096
          /\ UNCHANGED << sp, stack, v, i, memory, pixels >>]_vars

(***************************************************************************)
(* Arithmetic: load VX and VY, then 8XY4, 8XY5 or 8XY7.                    *)
(***************************************************************************)
AluValues == {0, 1, 255}
AluPairs == { << 0, 1 >>, << 1, 15 >>, << 15, 0 >>, << 15, 15 >>, << 2, 2 >> }

AluRoms ==
    { Assemble(<< WithImm(6, p[1], a), WithImm(6, p[2], b), Word(8, p[1], p[2], k),
                  Halt(ROM_ADDRESS + 6) >>) :
        p \in AluPairs, a \in AluValues, b \in AluValues, k \in {4, 5, 7} }

NextAlu == NextOn(AluRoms)
SpecAlu == Init /\ [][NextAlu]_vars

\* the cycle executes 8XYk
IsAlu(k) == FetchInRange(pc) /\ Opcode \div 4096 = 8 /\ Opcode % 16 = k
OpX == (Opcode \div 256) % 16
OpY == (Opcode \div 16) % 16

\* C9 as stated: after 8XY4, for all X and Y in 0..15 (X = 15 and Y = 15
\* included), V15 is 1 iff old VX + old VY > 255 and 0 otherwise, and VX
\* holds (old VX + old VY) mod 256.
C9_AddCarryAllPairs ==
    [][(cycle /\ IsAlu(4)) =>
          /\ v'[15] = (IF v[OpX] + v[OpY] > 255 THEN 1 ELSE 0)
          /\ v'[OpX] = (v[OpX] + v[OpY]) % 256]_vars

\* C9 amended: after 8XY4, for all X and Y in 0..15, V15 is 1 iff
\* old VX + old VY > 255 and 0 otherwise; for X # 15, VX holds
\* (old VX + old VY) mod 256 (with X = 15 the carry replaces the sum).
C9_AddCarry ==
    [][(cycle /\ IsAlu(4)) =>
          /\ v'[15] = (IF v[OpX] + v[OpY] > 255 THEN 1 ELSE 0)
          /\ OpX # 15 => v'[OpX] = (v[OpX] + v[OpY]) % 256]_vars

\* 8F04 has been executed on VF = 255, V0 = 255: VF holds the carry
C9_Witness ==
    /\ phase = "run"
    /\ panicked = NO_PANIC
    /\ pc = ROM_ADDRESS + 6
    /\ Fetch(memory, ROM_ADDRESS) = WithImm(6, 15, 255)
    /\ Fetch(memory, ROM_ADDRESS + 4) = Word(8, 15, 0, 4)
    /\ v[0] = 255
    /\ v[15] = 1

\* the minuend and the subtrahend of 8XY5 (VX - VY) and 8XY7 (VY - VX)
Minuend == IF Opcode % 16 = 5 THEN v[OpX] ELSE v[OpY]
Subtrahend == IF Opcode % 16 = 5 THEN v[OpY] ELSE v[OpX]

\* C10 as stated: 8XY5 and 8XY7 set V15 to 1 iff minuend >= subtrahend and
\* to 0 otherwise, and store the difference modulo 256 in VX, for all X, Y.
C10_SubtractAllPairs ==
    [][(cycle /\ (IsAlu(5) \/ IsAlu(7))) =>
          /\ v'[15] = (IF Minuend >= Subtrahend THEN 1 ELSE 0)
          /\ v'[OpX] = (Minuend - Subtrahend + 256) % 256]_vars

\* C10 amended: 8XY5 and 8XY7 set V15 to 1 iff minuend >= subtrahend and to
\* 0 otherwise, for all X, Y; for X # 15 they store the difference modulo
\* 256 in VX (with X = 15 the flag replaces the difference).
C10_Subtract ==
    [][(cycle /\ (IsAlu(5) \/ IsAlu(7))) =>
          /\ v'[15] = (IF Minuend >= Subtrahend THEN 1 ELSE 0)
          /\ OpX # 15 => v'[OpX] = (Minuend - Subtrahend + 256) % 256]_vars

\* 8015 has been executed on V0 = V1 = 255: equal operands, no borrow
C10_Witness ==
    /\ phase = "run"
    /\ panicked = NO_PANIC
    /\ pc = ROM_ADDRESS + 6
    /\ Fetch(memory, ROM_ADDRESS) = WithImm(6, 0, 255)
    /\ Fetch(memory, ROM_ADDRESS + 4) = Word(8, 0, 1, 5)
    /\ v[1] = 255
    /\ v[0] = 0
    /\ v[15] = 1

(***************************************************************************)
(* Sprite drawing.  A program draws a background sprite through V2, V3,    *)
(* then the same DXYN twice through VX, VY, and stays.  The sprite is the  *)
(* 16 bytes after the program, every column used.  One more program is     *)
(* the four instructions A2 10, 60 00, 61 00, D0 15 with the sprite bytes  *)
(* at 0x210.                                                               *)
(***************************************************************************)
SpriteWords == << 65409, 42435, 6270, 384, 21930, 4080, 39270, 15591 >>

\* where the sprite bytes of a DrawProgram lie
SpriteAddress == ROM_ADDRESS + 18

\* background position and rows, the registers X and Y, their values, the rows
DrawCases ==
    { << 0, 0, 0, 0, 1, 0, 0, 5 >>,
      << 62, 30, 5, 0, 1, 63, 31, 15 >>,
      << 1, 1, 3, 4, 5, 127, 63, 2 >>,
      << 0, 0, 15, 0, 1, 70, 5, 15 >>,
      << 60, 0, 4, 15, 1, 60, 0, 4 >>,
      << 10, 10, 5, 0, 1, 10, 10, 0 >>,
      << 5, 9, 8, 0, 1, 3, 40, 8 >>,
      << 20, 20, 1, 0, 0, 20, 20, 1 >> }

DrawProgram(c) ==
    Assemble(<< WithAddr(10, SpriteAddress),
                WithImm(6, 2, c[1]), WithImm(6, 3, c[2]), Word(13, 2, 3, c[3]),
                WithImm(6, c[4], c[6]), WithImm(6, c[5], c[7]),
                Word(13, c[4], c[5], c[8]), Word(13, c[4], c[5], c[8]),
                Halt(ROM_ADDRESS + 16) >> \o SpriteWords)

\* A2 10, 60 00, 61 00, D0 15, the program staying at 0x208, the sprite at 0x210
GlyphProgram ==
    Assemble(<< WithAddr(10, ROM_ADDRESS + 16), WithImm(6, 0, 0), WithImm(6, 1, 0),
                Word(13, 0, 1, 5), Halt(ROM_ADDRESS + 8), 0, 0, 0 >> \o SpriteWords)

DrawRoms == { DrawProgram(c) : c \in DrawCases } \cup { GlyphProgram }

NextDraw == NextOn(DrawRoms)
SpecDraw == Init /\ [][NextDraw]_vars

\* the cycle executes a DXYN
IsDraw == FetchInRange(pc) /\ Opcode \div 4096 = 13

\* C11: DXYN is an XOR involution.  When a DXYN is followed by the same DXYN
\* and the first one left VX and VY (the position) as they were, the second
\* one restores the grid the first one started from, pixel for pixel, and
\* sets V15 to 1 whenever the first one turned on at least one pixel.  The
\* sprite bytes are the same for both: a draw writes neither memory nor I.
C11_DrawTwiceRestores ==
    [][(/\ cycle
        /\ IsDraw
        /\ FetchInRange(pc')
        /\ Fetch(memory', pc') = Opcode
        /\ v'[OpX] = v[OpX]
        /\ v'[OpY] = v[OpY]) =>
          LET second == decode(Machine', keys', 0, overflow_checks')
          IN /\ memory' = memory
             /\ i' = i
             /\ second.pixels = pixels
             /\ (\E y \in 0 .. SCREEN_HEIGHT - 1, x \in 0 .. SCREEN_WIDTH - 1 :
                    pixels'[y][x] /\ ~pixels[y][x]) => second.v[15] = 1]_vars

\* both draws of the 15-row sprite at (63, 31) are done on top of the
\* background: the grid is the background again and V15 is 1
C11_Witness ==
    /\ phase = "run"
    /\ panicked = NO_PANIC
    /\ pc = ROM_ADDRESS + 16
    /\ Fetch(memory, ROM_ADDRESS + 12) = Word(13, 0, 1, 15)
    /\ Fetch(memory, ROM_ADDRESS + 14) = Word(13, 0, 1, 15)
    /\ v[0] = 63
    /\ v[1] = 31
    /\ v[15] = 1
    /\ pixels # BlankPixels

\* the position a DXYN draws at, the rows it draws, and bit `col` (0 is the
\* leftmost) of sprite row `row`
DrawX == v[OpX] % SCREEN_WIDTH
DrawY == v[OpY] % SCREEN_HEIGHT
DrawN == Opcode % 16
SpriteBit(col, row) == (memory[(i + row) % RAM_SIZE] \div (2 ^ (7 - col))) % 2 = 1

\* C12: sprite drawing wraps at both edges.  With x = VX mod 64 and
\* y = VY mod 32, a DXYN flips exactly the pixels ((x + col) mod 64,
\* (y + row) mod 32) whose sprite bit (col, row) is set, col in 0..7 and row
\* in 0..N-1: a sprite at x = 63 has its second column at x = 0, one at
\* y = 31 its second row at y = 0, and no pixel outside this wrapped
\* footprint changes.
C12_DrawWraps ==
    [][(cycle /\ IsDraw) =>
          \A py \in 0 .. SCREEN_HEIGHT - 1, px \in 0 .. SCREEN_WIDTH - 1 :
             pixels'[py][px] =
                (pixels[py][px] #
                   (\E row \in 0 .. DrawN - 1 :
                       /\ py = (DrawY + row) % SCREEN_HEIGHT
                       /\ \E col \in 0 .. 7 :
                             /\ px = (DrawX + col) % SCREEN_WIDTH
                             /\ SpriteBit(col, row)))]_vars

\* the 15-row sprite has been drawn once at (63, 31): its second column is
\* lit at x = 0 on row 31, its second row at y = 0 in column 63
C12_Witness ==
    /\ phase = "run"
    /\ panicked = NO_PANIC
    /\ pc = ROM_ADDRESS + 14
    /\ Fetch(memory, ROM_ADDRESS + 12) = Word(13, 0, 1, 15)
    /\ v[0] = 63
    /\ v[1] = 31
    /\ pixels[31][0]
    /\ pixels[0][63]

\* the program A2 10, 60 00, 61 00, D0 15 has run its four instructions
GlyphDrawn ==
    /\ phase = "run"
    /\ panicked = NO_PANIC
    /\ Fetch(memory, ROM_ADDRESS) = WithAddr(10, 528)
    /\ Fetch(memory, ROM_ADDRESS + 2) = WithImm(6, 0, 0)
    /\ Fetch(memory, ROM_ADDRESS + 4) = WithImm(6, 1, 0)
    /\ Fetch(memory, ROM_ADDRESS + 6) = Word(13, 0, 1, 5)
    /\ pc = ROM_ADDRESS + 8

\* C13: after a DXYN, V15 is 1 iff some pixel that was on coincided with a
\* set sprite bit, the pixel read before it is XORed, and 0 otherwise.  The
\* program A2 10, 60 00, 61 00, D0 15 on the blank display leaves V15 = 0,
\* pixel (c, r) for r in 0..4 and c in 0..7 equal to bit 7 - c of
\* memory[0x210 + r], and every other pixel off.
C13_CollisionFlag ==
    /\ [][(cycle /\ IsDraw) =>
            v'[15] = IF \E row \in 0 .. DrawN - 1, col \in 0 .. 7 :
                           /\ SpriteBit(col, row)
                           /\ pixels[(DrawY + row) % SCREEN_HEIGHT][(DrawX + col) % SCREEN_WIDTH]
                     THEN 1 ELSE 0]_vars
    /\ [](GlyphDrawn =>
            /\ v[15] = 0
            /\ \A r \in 0 .. SCREEN_HEIGHT - 1, c \in 0 .. SCREEN_WIDTH - 1 :
                  pixels[r][c] = (r <= 4 /\ c <= 7 /\ (memory[528 + r] \div (2 ^ (7 - c))) % 2 = 1))

\* the glyph program has drawn: the top row 0xFF lights (0, 0), the second
\* row 0x81 lights (7, 1) and leaves (1, 1) off
C13_Witness ==
    /\ GlyphDrawn
    /\ memory[528] = 255
    /\ memory[529] = 129
    /\ v[15] = 0
    /\ pixels[0][0]
    /\ pixels[1][7]
    /\ ~pixels[1][1]

\* the sprite bytes a DXYN reads, as the slice Display::draw_sprite takes
SpriteBytes == [r \in 1 .. DrawN |-> memory[(i + r - 1) % RAM_SIZE]]

\* C29: the drawing loop of the DXYN arm and Display::draw_sprite are
\* equivalent.  From the same grid, with the same position inside the grid
\* (x < 64, y < 32), the same row count n in 0..15 and the same sprite
\* bytes, DXYN leaves the grid draw_sprite leaves, and V15 is 1 when
\* draw_sprite returns true and 0 when it returns false.
C29_DrawLoopsEquivalent ==
    [][(cycle /\ IsDraw /\ v[OpX] < SCREEN_WIDTH /\ v[OpY] < SCREEN_HEIGHT) =>
          LET d == DrawSprite(pixels, Usize(v[OpX]), Usize(v[OpY]), DrawN, SpriteBytes,
                              overflow_checks)
          IN /\ d.panic = NO_PANIC
             /\ pixels' = d.pixels
             /\ v'[15] = BoolToU8(d.pixel_erased)]_vars

\* D001 at (20, 20) has erased the one-row background drawn there: the grid
\* is blank and V15 is 1
C29_Witness ==
    /\ phase = "run"
    /\ panicked = NO_PANIC
    /\ pc = ROM_ADDRESS + 14
    /\ Fetch(memory, ROM_ADDRESS + 6) = Word(13, 2, 3, 1)
    /\ Fetch(memory, ROM_ADDRESS + 12) = Word(13, 0, 0, 1)
    /\ v[0] = 20
    /\ v[15] = 1
    /\ pixels = BlankPixels

(***************************************************************************)
(* Timers.  A program sets the delay timer from V0 and the sound timer     *)
(* from V1, reads the delay timer, sets it again and reads it again, while *)
(* the timer thread runs; one program only sets the delay timer to 255 and *)
(* lets it run down.                                                       *)
(***************************************************************************)
TimerValues == { << 2, 1 >>, << 0, 2 >>, << 1, 0 >> }

TimerProgram(a, b) ==
    Assemble(<< WithImm(6, 0, a), Word(15, 0, 1, 5), WithImm(6, 1, b), Word(15, 1, 1, 8),
                Word(15, 2, 0, 7), Word(15, 0, 1, 5), Word(15, 3, 0, 7),
                Halt(ROM_ADDRESS + 14) >>)

RunDownProgram ==
    Assemble(<< WithImm(6, 0, 255), Word(15, 0, 1, 5), Halt(ROM_ADDRESS + 4) >>)

TimerRoms == { TimerProgram(t[1], t[2]) : t \in TimerValues } \cup { RunDownProgram }

NextTimer == NextOn(TimerRoms)
SpecTimer == Init /\ [][NextTimer]_vars

\* the cycle executes FX07, FX15, FX18
IsFX07 == FetchInRange(pc) /\ Opcode \div 4096 = 15 /\ Opcode % 256 = 7
IsFX15 == FetchInRange(pc) /\ Opcode \div 4096 = 15 /\ Opcode % 256 = 21
IsFX18 == FetchInRange(pc) /\ Opcode \div 4096 = 15 /\ Opcode % 256 = 24

\* C14: each timer stays in 0..255; one tick of the timer task takes a
\* counter from c to c - 1 when c > 0 and leaves it at 0 when c = 0; a
\* counter increases only through FX15 (delay) or FX18 (sound) on that
\* counter; setting one counter does not change the other.
C14_TimerCounters ==
    /\ [](delay_timer \in 0 .. 255 /\ sound_timer \in 0 .. 255)
    /\ [][/\ timer_tick_delay =>
                /\ delay_timer' = IF delay_timer > 0 THEN delay_timer - 1 ELSE 0
                /\ sound_timer' = sound_timer
          /\ timer_tick_sound =>
                /\ sound_timer' = IF sound_timer > 0 THEN sound_timer - 1 ELSE 0
                /\ delay_timer' = delay_timer
          /\ delay_timer' > delay_timer => cycle /\ IsFX15
          /\ sound_timer' > sound_timer => cycle /\ IsFX18
          /\ (cycle /\ IsFX15) => delay_timer' = v[OpX] /\ sound_timer' = sound_timer
          /\ (cycle /\ IsFX18) => sound_timer' = v[OpX] /\ delay_timer' = delay_timer]_vars

\* the delay timer was set to 2 and has ticked once, the sound timer was
\* set to 1 after that tick and has not ticked yet
C14_Witness ==
    /\ phase = "run"
    /\ Fetch(memory, ROM_ADDRESS) = WithImm(6, 0, 2)
    /\ Fetch(memory, ROM_ADDRESS + 2) = Word(15, 0, 1, 5)
    /\ pc = ROM_ADDRESS + 8
    /\ v[0] = 2
    /\ delay_timer = 1
    /\ sound_timer = 1

\* C15: every access to a timer counter is atomic.  While the timer thread
\* stands between its read of a counter and its write-back, the counter
\* still holds the value read, so a set is never lost to a decrement
\* computed from the value before the set; the interpreter touches a
\* counter only when its mutex is free; the delay timer changes only by an
\* FX15 that stores VX or by a completed tick that takes the value it holds
\* down by one, so v written by FX15 followed by k ticks and no further set
\* leaves max(v - k, 0); and FX07 stores in VX the value the counter holds.
C15_TimerAtomic ==
    /\ [](/\ timer_pc = "tick_delay" => timer_loaded = delay_timer /\ delay_lock = "timer"
          /\ timer_pc = "tick_sound" => timer_loaded = sound_timer /\ sound_lock = "timer")
    /\ [][/\ (cycle /\ (IsFX07 \/ IsFX15)) => delay_lock = "free"
          /\ (cycle /\ IsFX18) => sound_lock = "free"
          /\ delay_timer' # delay_timer =>
                \/ cycle /\ IsFX15 /\ delay_timer' = v[OpX]
                \/ timer_tick_delay /\ delay_timer' = delay_timer - 1
          /\ sound_timer' # sound_timer =>
                \/ cycle /\ IsFX18 /\ sound_timer' = v[OpX]
                \/ timer_tick_sound /\ sound_timer' = sound_timer - 1
          /\ (cycle /\ IsFX07) => v'[OpX] = delay_timer /\ delay_timer' = delay_timer]_vars

\* the interpreter stands at the second FX15, about to store 2, while the
\* thread holds the delay mutex between its read of 1 and its write-back
C15_Witness ==
    /\ phase = "run"
    /\ pc = ROM_ADDRESS + 10
    /\ IsFX15
    /\ v[OpX] = 2
    /\ delay_lock = "timer"
    /\ timer_pc = "tick_delay"
    /\ timer_loaded = 1
    /\ delay_timer = 1

\* a program that sets both timers to 2 again and again
ResetLoopProgram ==
    Assemble(<< WithImm(6, 0, 2), Word(15, 0, 1, 5), Word(15, 0, 1, 8), WithAddr(1, ROM_ADDRESS) >>)

TimerFairRoms == TimerRoms \cup { ResetLoopProgram }

\* the timer programs with the timer thread scheduled fairly: the thread is
\* never left waiting forever for a step it can take
NextTimerFair == NextOn(TimerFairRoms)
SpecTimerFair == Init /\ [][NextTimerFair]_vars /\ WF_vars(timer_thread)

\* C30: when the interpreter executes no further set instruction on a
\* timer, the counter, whatever value v it holds, eventually reaches 0 and
\* remains 0 forever after; it gets there by ticks of one, v of them, since
\* nothing but a set or a tick changes it; and the timer thread never stops
\* ticking either counter.
C30_TimersRunDown ==
    /\ <>[][~(cycle /\ IsFX15)]_vars => <>[](delay_timer = 0)
    /\ <>[][~(cycle /\ IsFX18)]_vars => <>[](sound_timer = 0)
    /\ [][/\ (delay_timer' # delay_timer /\ ~(cycle /\ IsFX15)) =>
                timer_tick_delay /\ delay_timer' = delay_timer - 1
          /\ (sound_timer' # sound_timer /\ ~(cycle /\ IsFX18)) =>
                timer_tick_sound /\ sound_timer' = sound_timer - 1]_vars
    /\ []<><<timer_tick_delay>>_vars
    /\ []<><<timer_tick_sound>>_vars

\* the program that sets the delay timer to 2, reads it, sets it to 2 again
\* and reads 2 back has come to its end; the delay timer has since run down
\* to 0, the sound timer too, and the timer thread is in its sleep
C30_Witness ==
    /\ phase = "run"
    /\ panicked = NO_PANIC
    /\ Fetch(memory, ROM_ADDRESS) = WithImm(6, 0, 2)
    /\ Fetch(memory, ROM_ADDRESS + 14) = Halt(ROM_ADDRESS + 14)
    /\ pc = ROM_ADDRESS + 14
    /\ v[3] = 2
    /\ delay_timer = 0
    /\ sound_timer = 0
    /\ timer_pc = "sleep"

\* the programs that contend for the mutexes: one sets and reads the timers
\* and stays, one sets both timers again and again
MutexRoms == { TimerProgram(2, 1), ResetLoopProgram }

\* both threads scheduled fairly: the timer thread is never left waiting for
\* a step it can take, and the interpreter, whose lock() is enabled each
\* time the thread releases the mutex, is not passed over forever.  No
\* timer instruction reads the keys: the only key event kept is the one
\* outside the keypad, which set_key ignores.
NextMutex == NextWith(MutexRoms, {})
SpecMutex == Init /\ [][NextMutex]_vars /\ WF_vars(timer_thread) /\ SF_vars(cycle)

\* the instruction the interpreter is about to execute takes the delay
\* mutex, the sound mutex
WantsDelay == phase = "run" /\ panicked = NO_PANIC /\ FetchInRange(pc) /\ LocksDelay(Nibbles(Opcode))
WantsSound == phase = "run" /\ panicked = NO_PANIC /\ FetchInRange(pc) /\ LocksSound(Nibbles(Opcode))

\* C31: the interpreter and the timer thread cannot deadlock on the two
\* timer mutexes.  The thread never holds both mutexes, and has released
\* the delay mutex when it asks for the sound mutex; no instruction takes
\* both, and the interpreter holds none between instructions; in every
\* reachable state the thread or the interpreter can take a step; and under
\* fair scheduling every acquisition succeeds: the thread waiting for a
\* mutex gets it, and the interpreter standing at a timer instruction
\* executes it.
C31_NoDeadlock ==
    /\ [](/\ delay_lock \in {"free", "timer"}
          /\ sound_lock \in {"free", "timer"}
          /\ ~(delay_lock = "timer" /\ sound_lock = "timer")
          /\ timer_pc \in {"lock_delay", "lock_sound", "sleep"} =>
                delay_lock = "free" /\ sound_lock = "free"
          /\ ~(WantsDelay /\ WantsSound)
          /\ (ENABLED cycle) \/ (ENABLED timer_thread))
    /\ (timer_pc = "lock_delay") ~> (timer_pc = "load_delay" /\ delay_lock = "timer")
    /\ (timer_pc = "lock_sound") ~> (timer_pc = "load_sound" /\ sound_lock = "timer")
    /\ []<>(~WantsDelay) \/ []<><<cycle /\ WantsDelay>>_vars
    /\ []<>(~WantsSound) \/ []<><<cycle /\ WantsSound>>_vars

\* the interpreter of the program that resets both timers stands at FX18
\* while the thread holds the sound mutex, the delay mutex free
C31_Witness ==
    /\ phase = "run"
    /\ panicked = NO_PANIC
    /\ Fetch(memory, ROM_ADDRESS + 6) = WithAddr(1, ROM_ADDRESS)
    /\ pc = ROM_ADDRESS + 4
    /\ WantsSound
    /\ sound_lock = "timer"
    /\ delay_lock = "free"
    /\ timer_pc = "tick_sound"

(***************************************************************************)
(* Waiting for a key.  A program loads 9 into VX, executes FX0A and stays  *)
(* at the next instruction; the driver presses and releases the keys       *)
(* 1..MaxWaitKey at any time.                                              *)
(***************************************************************************)
WaitRegisters == {0, 7, 15}

WaitRoms ==
    { Assemble(<< WithImm(6, x, 9), Word(15, x, 0, 10), Halt(ROM_ADDRESS + 4) >>) :
        x \in WaitRegisters }

NextWait == NextWith(WaitRoms, { key \in DriverKeys : key <= MaxWaitKey })
SpecWait == Init /\ [][NextWait]_vars

\* the cycle executes FX0A
IsFX0A == FetchInRange(pc) /\ Opcode \div 4096 = 15 /\ Opcode % 256 = 10

\* C16: FX0A blocks.  A cycle of FX0A with no key pressed leaves PC where it
\* was and changes no register; a cycle of FX0A with a key pressed (the
\* first such cycle, since PC then leaves the instruction) stores the
\* lowest index of a pressed key in VX, changes no other register and
\* advances PC by exactly 2.
C16_WaitForKey ==
    [][(cycle /\ IsFX0A) =>
          IF \A k \in 0 .. KEY_COUNT - 1 : ~keys[k]
          THEN /\ pc' = pc
               /\ UNCHANGED << v, i, sp, stack >>
          ELSE /\ pc' = pc + 2
               /\ keys[v'[OpX]]
               /\ \A k \in 0 .. KEY_COUNT - 1 : keys[k] => v'[OpX] <= k
               /\ \A r \in 0 .. 15 : r # OpX => v'[r] = v[r]
               /\ UNCHANGED << i, sp, stack >>]_vars

\* F00A has completed with the keys 1 and 2 both pressed: V0 went from 9 to 1
C16_Witness ==
    /\ phase = "run"
    /\ panicked = NO_PANIC
    /\ Fetch(memory, ROM_ADDRESS + 2) = Word(15, 0, 0, 10)
    /\ pc = ROM_ADDRESS + 4
    /\ keys[1]
    /\ keys[2]
    /\ v[0] = 1

(***************************************************************************)
(* Loading.  ROMs of 2 and 4 bytes and of the lengths around the 3584      *)
(* bytes that fit above ROM_ADDRESS.  Each starts with 1200, a jump to     *)
(* itself, and goes on with bytes that are never 0.                        *)
(***************************************************************************)
LoadLengths == {2, 4, 3583, 3584, 3585, 3586}

FillRom(len) ==
    [k \in 1 .. len |-> IF k = 1 THEN 18 ELSE IF k = 2 THEN 0 ELSE (k % 255) + 1]

LoadRoms == { FillRom(len) : len \in LoadLengths }

NextLoad == NextOn(LoadRoms)
SpecLoad == Init /\ [][NextLoad]_vars

\* C17: load_rom rejects a ROM exactly when len(rom) + 0x200 > 4096, so
\* 3584 bytes are accepted and 3585 are not; a rejected load writes no byte
\* and leaves the rest of the emulator as it was.
C17_LoadRomSizeTest ==
    [][\A rom \in LoadRoms :
          load_rom(rom) =>
             IF Len(rom) + 512 > 4096
             THEN /\ phase' = "rejected"
                  /\ UNCHANGED << memory, pc, sp, stack, v, i, pixels, keys,
                                  delay_timer, sound_timer, out, panicked >>
             ELSE phase' = "run"]_vars

\* a load was rejected: memory is what set_font left
C17_Witness ==
    /\ phase = "rejected"
    /\ memory = SetFont(MemoryNew, get_font)
    /\ pc = ROM_ADDRESS

\* C18: an accepted load_rom puts rom[i] at 0x200 + i for every i and
\* changes no other byte, the font at 0x050..0x09F included; set_font
\* writes only 0x050..0x09F.
C18_LoadRomFrame ==
    [][/\ \A rom \in LoadRoms :
             (load_rom(rom) /\ phase' = "run") =>
                /\ \A k \in 0 .. Len(rom) - 1 : memory'[512 + k] = rom[k + 1]
                /\ \A a \in 0 .. RAM_SIZE - 1 :
                      (a < 512 \/ a >= 512 + Len(rom)) => memory'[a] = memory[a]
                /\ \A a \in 80 .. 159 : memory'[a] = get_font[a - 80 + 1]
       /\ set_font =>
             \A a \in 0 .. RAM_SIZE - 1 : (a < 80 \/ a > 159) => memory'[a] = memory[a]]_vars

\* the 3584-byte ROM is loaded: its last byte is the last byte of memory,
\* the font stands below it and the byte before the ROM is untouched
C18_Witness ==
    /\ phase = "run"
    /\ memory[4095] = FillRom(3584)[3584]
    /\ memory[4094] = FillRom(3584)[3583]
    /\ memory[512] = 18
    /\ memory[511] = 0
    /\ memory[80] = 240
    /\ memory[159] = 128

(***************************************************************************)
(* Conditional skips.  A program loads VX and VY, executes one of 3XNN,    *)
(* 4XNN, 5XY0, 9XY0 (NN is the value loaded into VY) and stays at the      *)
(* instruction it lands on.                                                *)
(***************************************************************************)
SkipValues == {0, 255}
SkipPairs == { << 0, 1 >>, << 3, 15 >>, << 15, 15 >> }

SkipWords(x, y, nn) ==
    { WithImm(3, x, nn), WithImm(4, x, nn), Word(5, x, y, 0), Word(9, x, y, 0) }

SkipRoms ==
    { Assemble(<< WithImm(6, p[1], a), WithImm(6, p[2], b), w,
                  Halt(ROM_ADDRESS + 6), Halt(ROM_ADDRESS + 8) >>) :
        p \in SkipPairs, a \in SkipValues, b \in SkipValues,
        w \in UNION { SkipWords(q[1], q[2], c) : q \in SkipPairs, c \in SkipValues } }

NextSkip == NextOn(SkipRoms)
SpecSkip == Init /\ [][NextSkip]_vars

\* the cycle executes 3XNN, 4XNN, 5XY0 or 9XY0
IsSkip ==
    /\ FetchInRange(pc)
    /\ \/ Opcode \div 4096 \in {3, 4}
       \/ Opcode \div 4096 \in {5, 9} /\ Opcode % 16 = 0

\* the condition the skip instruction at pc tests
SkipCondition ==
    CASE Opcode \div 4096 = 3 -> v[OpX] = Opcode % 256
      [] Opcode \div 4096 = 4 -> v[OpX] # Opcode % 256
      [] Opcode \div 4096 = 5 -> v[OpX] = v[OpY]
      [] Opcode \div 4096 = 9 -> v[OpX] # v[OpY]

\* C19: 3XNN, 4XNN, 5XY0 and 9XY0 advance PC by 4 when their condition
\* holds and by 2 when it does not, for all registers and values, and
\* change nothing else.
C19_ConditionalSkips ==
    [][(cycle /\ IsSkip) =>
          /\ pc' = pc + (IF SkipCondition THEN 4 ELSE 2)
          /\ UNCHANGED << v, i, sp, stack, memory, pixels, delay_timer, sound_timer,
                          keys, panicked >>]_vars

\* 40FF has skipped on V0 = 0, and the program stays at the second landing place
C19_Witness ==
    /\ phase = "run"
    /\ panicked = NO_PANIC
    /\ Fetch(memory, ROM_ADDRESS) = WithImm(6, 0, 0)
    /\ Fetch(memory, ROM_ADDRESS + 4) = WithImm(4, 0, 255)
    /\ pc = ROM_ADDRESS + 8
    /\ v[0] = 0

(***************************************************************************)
(* Add immediate.  A program sets VF to 1, loads VX, executes 7XNN and     *)
(* stays.                                                                  *)
(***************************************************************************)
AddRegisters == {0, 7, 15}
AddValues == {0, 200, 255}
AddImmediates == {0, 1, 56, 255}

AddRoms ==
    { Assemble(<< WithImm(6, 15, 1), WithImm(6, x, a), WithImm(7, x, nn),
                  Halt(ROM_ADDRESS + 6) >>) :
        x \in AddRegisters, a \in AddValues, nn \in AddImmediates }

NextAdd == NextOn(AddRoms)
SpecAdd == Init /\ [][NextAdd]_vars

\* the cycle executes 7XNN
Is7XNN == FetchInRange(pc) /\ Opcode \div 4096 = 7

\* C20: 7XNN stores (old VX + NN) mod 256 in VX and has no flag effect: no
\* register other than VX changes, so for X # 15 V15 keeps its value even
\* when the addition wraps.
C20_AddImmediate ==
    [][(cycle /\ Is7XNN) =>
          /\ v'[OpX] = (v[OpX] + (Opcode % 256)) % 256
          /\ \A r \in 0 .. 15 : r # OpX => v'[r] = v[r]
          /\ pc' = pc + 2
          /\ UNCHANGED << i, sp, stack, memory, pixels >>]_vars

\* 7038 has wrapped V0 = 200 to 0 and V15 is still the 1 loaded before
C20_Witness ==
    /\ phase = "run"
    /\ panicked = NO_PANIC
    /\ Fetch(memory, ROM_ADDRESS + 2) = WithImm(6, 0, 200)
    /\ Fetch(memory, ROM_ADDRESS + 4) = WithImm(7, 0, 56)
    /\ pc = ROM_ADDRESS + 6
    /\ v[0] = 0
    /\ v[15] = 1

\* C21: in every reachable state sp <= 16; the slot a call writes and the
\* slot a return reads have an index in 0..15; sp changes only by +1 on a
\* call that pushes and by -1 on a return that pops, and the stack changes
\* only in the slot a call pushes to.
C21_StackPointerBounded ==
    /\ [](sp \in 0 .. 16)
    /\ [][/\ sp' # sp =>
                /\ cycle
                /\ FetchInRange(pc)
                /\ \/ /\ Opcode \div 4096 = 2
                      /\ sp' = sp + 1
                      /\ sp \in 0 .. 15
                      /\ stack' = [stack EXCEPT ![sp] = pc]
                   \/ /\ Opcode = Ret
                      /\ sp' = sp - 1
                      /\ sp - 1 \in 0 .. 15
                      /\ pc' = stack[sp - 1] + 2
                      /\ stack' = stack
          /\ stack' # stack => sp' = sp + 1]_vars

\* the ladder has been climbed as far as the interpreter lets it and one
\* return has popped the top entry
C21_Witness ==
    /\ phase = "run"
    /\ panicked = NO_PANIC
    /\ sp = STACK_LEN - 2
    /\ stack[STACK_LEN - 2] # 0
    /\ pc = stack[STACK_LEN - 2] + 2

(***************************************************************************)
(* The display as a frame.  A program draws the glyph of 0 at (60, 0),     *)
(* executes one instruction and stays; the instructions cover every arm    *)
(* of decode and words that match none.  One more program calls a          *)
(* subroutine that returns.                                                *)
(***************************************************************************)
FrameLanding == ROM_ADDRESS + 10

FrameWords ==
    { Word(0, 0, 14, 0), Ret, WithAddr(1, FrameLanding), WithAddr(2, FrameLanding),
      WithImm(3, 2, 0), WithImm(4, 2, 0), Word(5, 2, 3, 0), WithImm(6, 2, 7), WithImm(7, 2, 1),
      Word(8, 2, 0, 0), Word(8, 2, 0, 1), Word(8, 2, 0, 2), Word(8, 2, 0, 3), Word(8, 2, 0, 4),
      Word(8, 2, 0, 5), Word(8, 2, 0, 6), Word(8, 2, 0, 7), Word(8, 2, 0, 14),
      Word(9, 2, 0, 0), WithAddr(10, 291), WithAddr(11, FrameLanding - 60), WithImm(12, 2, 1),
      Word(13, 0, 1, 5), Word(13, 2, 3, 1),
      Word(14, 2, 9, 14), Word(14, 2, 10, 1),
      Word(15, 2, 0, 7), Word(15, 2, 0, 10), Word(15, 2, 1, 5), Word(15, 2, 1, 8),
      Word(15, 0, 1, 14), Word(15, 0, 2, 9), Word(15, 0, 3, 3), Word(15, 1, 5, 5),
      Word(15, 1, 6, 5),
      0, Word(0, 0, 14, 1), Word(5, 2, 3, 1), Word(8, 2, 0, 8), Word(14, 2, 0, 0),
      Word(15, 15, 15, 15) }

FrameProgram(w) ==
    Assemble(<< WithImm(6, 0, 60), WithAddr(10, FONT_ADDRESS), Word(13, 0, 1, 5), w,
                Halt(ROM_ADDRESS + 8), Halt(FrameLanding) >>)

\* the subroutine at FrameLanding returns to the instruction after the call
FrameCallProgram ==
    Assemble(<< WithImm(6, 0, 60), WithAddr(10, FONT_ADDRESS), Word(13, 0, 1, 5),
                WithAddr(2, FrameLanding), Halt(ROM_ADDRESS + 8), Ret >>)

FrameRoms == { FrameProgram(w) : w \in FrameWords } \cup { FrameCallProgram }

NextFrame == NextOn(FrameRoms)
SpecFrame == Init /\ [][NextFrame]_vars

\* C22: the pixel grid is changed only by a cycle that executes 00E0 or
\* DXYN: every other instruction, every word that matches no instruction,
\* every step of the timer thread, load_rom, set_font and set_key leave
\* every pixel as it was.
C22_DisplayFrame ==
    [][pixels' # pixels =>
          /\ cycle
          /\ FetchInRange(pc)
          /\ Opcode = Word(0, 0, 14, 0) \/ Opcode \div 4096 = 13]_vars

\* the glyph is on the display and the subroutine has returned: the call
\* and the return have both run with the glyph drawn
C22_Witness ==
    /\ phase = "run"
    /\ panicked = NO_PANIC
    /\ Fetch(memory, FrameLanding) = Ret
    /\ pc = ROM_ADDRESS + 8
    /\ stack[0] = ROM_ADDRESS + 6
    /\ pixels[0][60]
    /\ pixels[4][63]

\* C23: 00E0 executed on any grid, one with pixels set included, leaves
\* every one of the 64 x 32 pixels false after that one cycle, advances PC
\* by 2 and changes no register, stack entry, index pointer or memory byte.
C23_ClearScreen ==
    [][(cycle /\ FetchInRange(pc) /\ Opcode = Word(0, 0, 14, 0)) =>
          /\ \A y \in 0 .. SCREEN_HEIGHT - 1, x \in 0 .. SCREEN_WIDTH - 1 : ~pixels'[y][x]
          /\ pc' = pc + 2
          /\ UNCHANGED << v, sp, stack, i, memory >>]_vars

\* 00E0 has run right after the glyph was drawn: the grid is blank again
C23_Witness ==
    /\ phase = "run"
    /\ panicked = NO_PANIC
    /\ Fetch(memory, ROM_ADDRESS + 4) = Word(13, 0, 1, 5)
    /\ Fetch(memory, ROM_ADDRESS + 6) = Word(0, 0, 14, 0)
    /\ pc = ROM_ADDRESS + 8
    /\ v[0] = 60
    /\ pixels = BlankPixels

(***************************************************************************)
(* Binary-coded decimal.  A program sets I, loads VX, executes FX33 and    *)
(* stays; I lies inside memory or within two bytes of its end.             *)
(***************************************************************************)
BcdAddresses == { 768, RAM_SIZE - 3, RAM_SIZE - 2, RAM_SIZE - 1 }
BcdValues == {0, 9, 123, 255}
BcdRegisters == {0, 15}

BcdRoms ==
    { Assemble(<< WithAddr(10, a), WithImm(6, x, val), Word(15, x, 3, 3),
                  Halt(ROM_ADDRESS + 6) >>) :
        a \in BcdAddresses, val \in BcdValues, x \in BcdRegisters }

NextBcd == NextOn(BcdRoms)
SpecBcd == Init /\ [][NextBcd]_vars

\* the cycle executes FX33
IsFX33 == FetchInRange(pc) /\ Opcode \div 4096 = 15 /\ Opcode % 256 = 51

\* the digits of VX at I, I + 1, I + 2, every other byte, I and the
\* registers as they were
BcdWritten ==
    /\ memory'[i % RAM_SIZE] = v[OpX] \div 100
    /\ memory'[(i + 1) % RAM_SIZE] = (v[OpX] \div 10) % 10
    /\ memory'[(i + 2) % RAM_SIZE] = v[OpX] % 10
    /\ 100 * memory'[i % RAM_SIZE] + 10 * memory'[(i + 1) % RAM_SIZE]
          + memory'[(i + 2) % RAM_SIZE] = v[OpX]
    /\ \A k \in 0 .. 2 : memory'[(i + k) % RAM_SIZE] \in 0 .. 9
    /\ \A a \in 0 .. RAM_SIZE - 1 :
          (\A k \in 0 .. 2 : a # (i + k) % RAM_SIZE) => memory'[a] = memory[a]
    /\ UNCHANGED << i, v >>

\* C24: FX33 writes the decimal digits of VX to the three bytes at I:
\* memory[I] = VX div 100, memory[I + 1] = (VX div 10) mod 10,
\* memory[I + 2] = VX mod 10, each in 0..9 and together worth VX; I, all
\* registers and every other memory byte are unchanged.
C24_BcdDigits ==
    [][(cycle /\ IsFX33) => BcdWritten]_vars

\* the same, for the I that leave all three bytes inside memory
C24_BcdDigitsInside ==
    [][(cycle /\ IsFX33 /\ i + 2 < RAM_SIZE) => BcdWritten]_vars

(***************************************************************************)
(* Register transfer.  A program loads V0, V1, V2, sets I, executes FX55   *)
(* or FX65 and stays; I lies over the font, behind the program, or within   *)
(* two bytes of the end of memory.                                         *)
(***************************************************************************)
RegAddresses == { FONT_ADDRESS + 5, ROM_ADDRESS + 16, RAM_SIZE - 2, RAM_SIZE - 1 }
RegCounts == {0, 1, 2, 15}

RegRoms ==
    { Assemble(<< WithImm(6, 0, 17), WithImm(6, 1, 34), WithImm(6, 2, 51), WithAddr(10, a),
                  Word(15, x, k, 5), Halt(ROM_ADDRESS + 10) >>) :
        a \in RegAddresses, x \in RegCounts, k \in {5, 6} }

NextReg == NextOn(RegRoms)
SpecReg == Init /\ [][NextReg]_vars

\* the cycle executes FX55, FX65
IsFX55 == FetchInRange(pc) /\ Opcode \div 4096 = 15 /\ Opcode % 256 = 85
IsFX65 == FetchInRange(pc) /\ Opcode \div 4096 = 15 /\ Opcode % 256 = 101

\* FX55 from I: memory[I + k] = Vk for k in 0..X, nothing else in memory,
\* no register, and I advanced by X + 1
RegistersStored ==
    /\ \A k \in 0 .. OpX : memory'[(i + k) % RAM_SIZE] = v[k]
    /\ \A a \in 0 .. RAM_SIZE - 1 :
          (\A k \in 0 .. OpX : a # (i + k) % RAM_SIZE) => memory'[a] = memory[a]
    /\ v' = v
    /\ i' = i + OpX + 1

\* FX65 from I: Vk = memory[I + k] for k in 0..X, no register above X,
\* nothing in memory, and I advanced by X + 1
RegistersLoaded ==
    /\ \A k \in 0 .. OpX : v'[k] = memory[(i + k) % RAM_SIZE]
    /\ \A k \in OpX + 1 .. 15 : v'[k] = v[k]
    /\ memory' = memory
    /\ i' = i + OpX + 1

\* C25: FX55 with index pointer I0 writes memory[I0 + k] = Vk for every k
\* in 0..X, leaves all registers and every other memory byte unchanged and
\* leaves I = I0 + X + 1; FX65 sets Vk = memory[I0 + k] for every k in
\* 0..X, leaves the registers above X and all memory unchanged and leaves
\* I = I0 + X + 1.
C25_RegisterTransfer ==
    [][/\ (cycle /\ IsFX55) => RegistersStored
       /\ (cycle /\ IsFX65) => RegistersLoaded]_vars

\* the same, for the I that leave every transferred byte inside memory
C25_RegisterTransferInside ==
    [][/\ (cycle /\ IsFX55 /\ i + OpX < RAM_SIZE) => RegistersStored
       /\ (cycle /\ IsFX65 /\ i + OpX < RAM_SIZE) => RegistersLoaded]_vars

(***************************************************************************)
(* Logic and shifts.  A program loads VX and VY, executes one of 8XY1,     *)
(* 8XY2, 8XY3, 8XY6, 8XYE and stays.  The pairs are those of the           *)
(* arithmetic programs: the flags register as X, as Y, as both.            *)
(***************************************************************************)
BitsValuesX == {1, 170}
BitsValuesY == {1, 170, 255}

BitsRoms ==
    { Assemble(<< WithImm(6, p[1], a), WithImm(6, p[2], b), Word(8, p[1], p[2], k),
                  Halt(ROM_ADDRESS + 6) >>) :
        p \in AluPairs, a \in BitsValuesX, b \in BitsValuesY, k \in {1, 2, 3, 6, 14} }

NextBits == NextOn(BitsRoms)
SpecBits == Init /\ [][NextBits]_vars

\* C26: with SHIFT_SET_MODE = true, 8XY6 sets V15 to old VY mod 2 and VX
\* to old VY div 2, and 8XYE sets V15 to bit 7 of old VY and VX to
\* (2 * old VY) mod 256; when X = 15 the flag is what V15 holds; no other
\* register changes.
C26_Shifts ==
    [][/\ (cycle /\ IsAlu(6)) =>
             /\ v'[15] = v[OpY] % 2
             /\ OpX # 15 => v'[OpX] = v[OpY] \div 2
       /\ (cycle /\ IsAlu(14)) =>
             /\ v'[15] = (v[OpY] \div 128) % 2
             /\ OpX # 15 => v'[OpX] = (2 * v[OpY]) % 256
       /\ (cycle /\ (IsAlu(6) \/ IsAlu(14))) =>
             /\ \A r \in 0 .. 14 : r # OpX => v'[r] = v[r]
             /\ pc' = pc + 2
             /\ UNCHANGED << i, sp, stack, memory, pixels >>]_vars

\* 8016 has run on V0 = 170, V1 = 1: V0 is 0 and the bit shifted out of V1
\* is in V15
C26_Witness ==
    /\ phase = "run"
    /\ panicked = NO_PANIC
    /\ Fetch(memory, ROM_ADDRESS) = WithImm(6, 0, 170)
    /\ Fetch(memory, ROM_ADDRESS + 2) = WithImm(6, 1, 1)
    /\ Fetch(memory, ROM_ADDRESS + 4) = Word(8, 0, 1, 6)
    /\ pc = ROM_ADDRESS + 6
    /\ v[0] = 0
    /\ v[1] = 1
    /\ v[15] = 1

\* C27: 8XY1, 8XY2, 8XY3 compute the bitwise operation of the two operand
\* registers for every pair X, Y in 0..15, X = 15 and Y = 15 included:
\* after 8XY1 VX = old VX OR old VY, after 8XY2 VX = old VX AND old VY,
\* after 8XY3 VX = old VX XOR old VY.
C27_LogicAllPairs ==
    [][/\ (cycle /\ IsAlu(1)) => v'[OpX] = Bitwise("or", v[OpX], v[OpY], 0)
       /\ (cycle /\ IsAlu(2)) => v'[OpX] = Bitwise("and", v[OpX], v[OpY], 0)
       /\ (cycle /\ IsAlu(3)) => v'[OpX] = Bitwise("xor", v[OpX], v[OpY], 0)]_vars

\* the same, for the pairs that leave the flags register out
C27_LogicOtherPairs ==
    [][/\ (cycle /\ IsAlu(1) /\ OpX # 15 /\ OpY # 15) =>
             v'[OpX] = Bitwise("or", v[OpX], v[OpY], 0)
       /\ (cycle /\ IsAlu(2) /\ OpX # 15 /\ OpY # 15) =>
             v'[OpX] = Bitwise("and", v[OpX], v[OpY], 0)
       /\ (cycle /\ IsAlu(3) /\ OpX # 15 /\ OpY # 15) =>
             v'[OpX] = Bitwise("xor", v[OpX], v[OpY], 0)]_vars

(***************************************************************************)
(* Public functions without a caller in the repository:                    *)
(* Display::draw_sprite, CPU::_set_program_counter, Memory::clear.  No     *)
(* step of Next is one of them.  Each takes `&mut` of a part of the        *)
(* emulator, so it runs on the thread that owns the emulator, between two  *)
(* steps of the driver.  Display::draw_sprite ends with a blocking send of *)
(* the grid on the pixel buffer channel: the call stands there while the   *)
(* channel is full, and panics when the receiver is dropped.               *)
(***************************************************************************)
\* Display::draw_sprite(x, y, n, sprite) up to its send; the bool it returns
\* is dropped
draw_sprite(x, y, n, sprite) ==
    /\ panicked = NO_PANIC
    /\ display_pc = "idle"
    /\ LET d == DrawSprite(pixels, x, y, n, sprite, overflow_checks)
       IN /\ pixels' = d.pixels
          /\ panicked' = d.panic
          /\ display_pc' = IF d.panic = NO_PANIC THEN "send" ELSE "idle"
    /\ UNCHANGED << pc, sp, stack, v, i, delay_timer, sound_timer, delay_lock, sound_lock,
                    timer_pc, timer_loaded, memory, keys, out, overflow_checks, phase,
                    pixel_buffer, receiver_alive >>

\* Display::draw_sprite, `blocking_send(PixelBuffer { pixels }).unwrap()`: an
\* Err and the panic of unwrap when the receiver is dropped, the frame in
\* the channel when there is room, and no step while the channel is full
draw_sprite_send ==
    /\ panicked = NO_PANIC
    /\ display_pc = "send"
    /\ IF ~receiver_alive
       THEN /\ panicked' = PANIC_SEND
            /\ UNCHANGED pixel_buffer
       ELSE /\ Len(pixel_buffer) < CHANNEL_CAPACITY
            /\ pixel_buffer' = Append(pixel_buffer, pixels)
            /\ UNCHANGED panicked
    /\ display_pc' = "idle"
    /\ UNCHANGED << pc, sp, stack, v, i, delay_timer, sound_timer, delay_lock, sound_lock,
                    timer_pc, timer_loaded, memory, pixels, keys, out, overflow_checks, phase,
                    receiver_alive >>

\* the other end of the channel takes a frame: frame_buffer_receiver.try_recv()
frame_receive ==
    /\ receiver_alive
    /\ pixel_buffer # << >>
    /\ pixel_buffer' = Tail(pixel_buffer)
    /\ UNCHANGED << pc, sp, stack, v, i, delay_timer, sound_timer, delay_lock, sound_lock,
                    timer_pc, timer_loaded, memory, pixels, keys, out, panicked, overflow_checks,
                    phase, receiver_alive, display_pc >>

\* the other end of the channel is dropped, the frames in it with it
receiver_drop ==
    /\ receiver_alive
    /\ receiver_alive' = FALSE
    /\ pixel_buffer' = << >>
    /\ UNCHANGED << pc, sp, stack, v, i, delay_timer, sound_timer, delay_lock, sound_lock,
                    timer_pc, timer_loaded, memory, pixels, keys, out, panicked, overflow_checks,
                    phase, display_pc >>

\* CPU::_set_program_counter(pc)
_set_program_counter(address) ==
    /\ panicked = NO_PANIC
    /\ display_pc = "idle"
    /\ pc' = address
    /\ UNCHANGED << sp, stack, v, i, delay_timer, sound_timer, delay_lock, sound_lock,
                    timer_pc, timer_loaded, memory, pixels, keys, out, panicked, overflow_checks,
                    phase, pixel_buffer, receiver_alive, display_pc >>

\* Memory::clear()
memory_clear ==
    /\ panicked = NO_PANIC
    /\ display_pc = "idle"
    /\ memory' = [a \in DOMAIN memory |-> 0]
    /\ UNCHANGED << pc, sp, stack, v, i, delay_timer, sound_timer, delay_lock, sound_lock,
                    timer_pc, timer_loaded, pixels, keys, out, panicked, overflow_checks,
                    phase, pixel_buffer, receiver_alive, display_pc >>

\* the sprite bytes of the calls: byte `row` of a slice of `len` bytes
SpriteSlice(len) == [r \in 1 .. len |-> (r * 37) % 256]

\* the calls of draw_sprite: a sprite one row longer than the grid is high, a
\* sprite across the right and bottom edges from a position next to
\* usize::MAX in x and outside the grid in y, and a slice shorter than n
BlitCalls ==
    { [x |-> Usize(0), y |-> Usize(0), n |-> SCREEN_HEIGHT + 1,
       sprite |-> SpriteSlice(SCREEN_HEIGHT + 1)],
      [x |-> UsizeBelowMax(5), y |-> Usize(2 * SCREEN_HEIGHT - 1), n |-> 2,
       sprite |-> SpriteSlice(2)],
      [x |-> Usize(0), y |-> Usize(0), n |-> 3, sprite |-> SpriteSlice(2)] }

\* 60 05 and the program stays at 0x202
BlitRoms == { Assemble(<< WithImm(6, 0, 5), Halt(ROM_ADDRESS + 2) >>) }

\* the driver and the timer thread, the calls of draw_sprite with the
\* channel, the program counter set back to the start of the ROM, and the
\* memory cleared between set_font and load_rom
NextBlit ==
    \/ NextWith(BlitRoms, {})
    \/ \E c \in BlitCalls : draw_sprite(c.x, c.y, c.n, c.sprite)
    \/ draw_sprite_send
    \/ frame_receive
    \/ receiver_drop
    \/ _set_program_counter(ROM_ADDRESS)
    \/ phase = "font" /\ memory_clear

SpecBlit == Init /\ [][NextBlit]_vars

\* the pixel (px, py) is under a set bit of one of the rows 0 .. rows - 1 of the
\* sprite at (x, y)
UnderSprite(px, py, x, y, rows, sprite) ==
    LET col == (px + SCREEN_WIDTH - ModUsize(x, SCREEN_WIDTH)) % SCREEN_WIDTH
        row == (py + SCREEN_HEIGHT - ModUsize(y, SCREEN_HEIGHT)) % SCREEN_HEIGHT
    IN /\ col < 8
       /\ row < rows
       /\ (sprite[row + 1] \div (2 ^ (7 - col))) % 2 = 1

\* C28: Display::draw_sprite skips the sprite rows whose index is at or
\* beyond the display height: called with a row count n greater than 32 it
\* XORs rows 0 .. 31 onto the grid and draws nothing of row 32.
C28_RowsBeyondHeightSkipped ==
    [][\A c \in BlitCalls :
          (draw_sprite(c.x, c.y, c.n, c.sprite) /\ c.n > SCREEN_HEIGHT /\ Len(c.sprite) >= c.n) =>
             \A py \in 0 .. SCREEN_HEIGHT - 1, px \in 0 .. SCREEN_WIDTH - 1 :
                pixels'[py][px] =
                   (pixels[py][px] # UnderSprite(px, py, c.x, c.y, SCREEN_HEIGHT, c.sprite))]_vars

\* a call with n of at most 32 XORs exactly its n rows
C28_RowsInsideDrawn ==
    [][\A c \in BlitCalls :
          (/\ draw_sprite(c.x, c.y, c.n, c.sprite)
           /\ c.n <= SCREEN_HEIGHT
           /\ panicked' = NO_PANIC) =>
             \A py \in 0 .. SCREEN_HEIGHT - 1, px \in 0 .. SCREEN_WIDTH - 1 :
                pixels'[py][px] =
                   (pixels[py][px] # UnderSprite(px, py, c.x, c.y, c.n, c.sprite))]_vars

(***************************************************************************)
(* The whole program: every family of ROMs.                                *)
(***************************************************************************)
AllRoms ==
    CallRoms \cup MemRoms \cup UnknownRoms \cup FontRoms \cup KeyRoms \cup JumpRoms
    \cup AluRoms \cup DrawRoms \cup TimerRoms \cup WaitRoms \cup LoadRoms \cup SkipRoms
    \cup AddRoms \cup FrameRoms \cup BcdRoms \cup RegRoms \cup BitsRoms \cup BlitRoms
    \cup TimerFairRoms \cup MutexRoms

Next == NextWith(AllRoms, DriverKeys)
Spec == Init /\ [][Next]_vars

====
